---- MODULE Spec2Model ----
(***************************************************************************)
(* Harmonic piano: the tuning engine (client/src/lib/tuning.ts and         *)
(* client/src/lib/piano.ts) and the Piano page that holds the note map.    *)
(*                                                                         *)
(* Representation of the JavaScript values:                                *)
(*   - a string is a sequence of one-character strings ("C#4" is           *)
(*     <<"C","#","4">>), so that parsing and formatting are computed;      *)
(*   - a frequency is an integer number of hundredths of a hertz           *)
(*     (440 Hz is 44000); calculateFrequency rounds to two decimals, and   *)
(*     the base-frequency input has step 0.01;                             *)
(*   - a cents value is an integer number of tenths of a cent (386.3       *)
(*     cents is 3863); every tabulated value has one decimal;              *)
(*   - a multiplier (2^x, n/d) is a fixed-point number with ONE = 10^9.    *)
(***************************************************************************)
EXTENDS Integers, Sequences, FiniteSets, TLC

(***************************************************************************)
(* Fixed-point arithmetic                                                  *)
(***************************************************************************)
ONE == 10 ^ 9

\* const v = ...; F(v): a value computed once and then used where F uses it
With(v, F(_)) == F(v)

Abs(x) == IF x < 0 THEN -x ELSE x

Sign(x) == IF x < 0 THEN -1 ELSE IF x = 0 THEN 0 ELSE 1

\* a*b = q*ONE + r with 0 <= r < ONE, for 0 <= a, b < 2^31, by schoolbook
\* multiplication on limbs of four decimal digits, so that no intermediate
\* exceeds 32 bits
MulOneQR(a, b) ==
  LET a0 == a % 10000
      a1 == (a \div 10000) % 10000
      a2 == a \div 100000000
      b0 == b % 10000
      b1 == (b \div 10000) % 10000
      b2 == b \div 100000000
      c0 == a0 * b0
      c1 == a0 * b1 + a1 * b0
      c2 == a0 * b2 + a1 * b1 + a2 * b0
      c3 == a1 * b2 + a2 * b1
      c4 == a2 * b2
      lo == (c2 % 10) * 100000000 + (c1 % 100000) * 10000 + c0
  IN  << c4 * 10000000 + c3 * 1000 + (c2 \div 10) + (c1 \div 100000)
           + (lo \div ONE),
         lo % ONE >>

\* a*b/ONE rounded to the nearest integer, halves up
MulOneRound(a, b) ==
  With(MulOneQR(a, b),
       LAMBDA qr : IF 2 * qr[2] >= ONE THEN qr[1] + 1 ELSE qr[1])

\* long division by c of rem * 10^i + (the last i decimal digits of l), for
\* rem < c < 2^31 / 10: the quotient after q, and the remainder
RECURSIVE LongDiv(_, _, _, _, _)
LongDiv(rem, q, l, i, c) ==
  IF i = 0 \/ rem >= c THEN <<q, rem>>
  ELSE LET r1 == rem * 10 + ((l \div (10 ^ (i - 1))) % 10)
       IN  LongDiv(r1 % c, q * 10 + (r1 \div c), l, i - 1, c)

\* a*b = (qh*ONE + ql)*c + r with 0 <= ql < ONE and 0 <= r < c, as
\* <<qh, ql, r>>, for a, b >= 0 and c > 0 either below 2^31 / 10 or a divisor
\* of ONE: the product on two limbs, then the division
MulDivWide(a, b, c) ==
  With(MulOneQR(a, b), LAMBDA w :
    IF c < 200000000
    THEN With(LongDiv(w[1] % c, 0, w[2], 9, c),
              LAMBDA low : <<w[1] \div c, low[1], low[2]>>)
    ELSE With(w[1] * (ONE \div c) + (w[2] \div c),
              LAMBDA q : <<q \div ONE, q % ONE, w[2] % c>>))

MulDivQR(a, b, c) ==
  With(MulDivWide(a, b, c), LAMBDA w : <<w[1] * ONE + w[2], w[3]>>)

\* floor(a*b/c)
MulDiv(a, b, c) == MulDivQR(a, b, c)[1]

\* 2^(2^k / 24000) * ONE for k = 0..14: the factors of Math.pow(2, x/1200)
\* for x a multiple of 0.05 cents
Pow2Table ==
  <<1000028882, 1000057764, 1000115531, 1000231076, 1000462205,
    1000924623, 1001850102, 1003703627, 1007420970, 1014897010,
    1030015942, 1060932841, 1125578492, 1266926942, 1605103877>>

\* the product of acc and the table entries of the bits of e set, from
\* bit k on
RECURSIVE Pow2Bits(_, _, _)
Pow2Bits(e, k, acc) ==
  IF e = 0 \/ acc = 0 THEN acc
  ELSE Pow2Bits(e \div 2, k + 1,
                IF e % 2 = 1 THEN MulOneRound(acc, Pow2Table[k]) ELSE acc)

\* 2^(e/24000) * ONE for 0 <= e < 24000
Pow2Frac(e) == Pow2Bits(e, 1, ONE)

RECURSIVE TwoTo(_)
TwoTo(n) == IF n <= 0 THEN 1 ELSE 2 * TwoTo(n - 1)

\* x / m rounded to the nearest integer, halves up (x >= 0, m > 0)
DivRound(x, m) == (x \div m) + (IF 2 * (x % m) >= m THEN 1 ELSE 0)

\* Math.pow(2, cents / 1200) as the fraction <<p, q>>, cents in tenths of a
\* cent: the fractional part of the exponent is a product of table entries,
\* the octave part divides the denominator (2^9 divides ONE) or, below one
\* octave down, the numerator
Pow2Cents(cents) ==
  LET k == cents \div 12000
      f == cents % 12000
  IN  IF k >= 0 THEN <<Pow2Frac(2 * f), ONE \div TwoTo(k)>>
      ELSE <<DivRound(Pow2Frac(2 * f), TwoTo(-k)), ONE>>

\* 24000 * Math.log2(x / ONE) rounded down, for ONE <= x < 2 * ONE: the bits
\* of the exponent from bit k down, acc the power for the bits taken so far
\* and e their value
RECURSIVE Log2Bits(_, _, _, _)
Log2Bits(x, k, acc, e) ==
  IF k = 0 THEN e
  ELSE With(MulOneRound(acc, Pow2Table[k]), LAMBDA next :
         IF next <= x THEN Log2Bits(x, k - 1, next, e + TwoTo(k - 1))
         ELSE Log2Bits(x, k - 1, acc, e))

\* the number of octaves to take from n/d to bring it into [1, 2)
RECURSIVE OctavesOf(_, _)
OctavesOf(n, d) ==
  IF n >= 2 * d THEN 1 + OctavesOf(n, 2 * d)
  ELSE IF n < d THEN OctavesOf(2 * n, d) - 1
  ELSE 0

(***************************************************************************)
(* Strings                                                                 *)
(***************************************************************************)
Digits == <<"0", "1", "2", "3", "4", "5", "6", "7", "8", "9">>

IsDigit(ch) == \E i \in 1..10 : Digits[i] = ch

DigitVal(ch) == (CHOOSE i \in 1..10 : Digits[i] = ch) - 1

\* Array.prototype.indexOf: the 0-based index of x in seq, or -1
IndexOf(seq, x) ==
  IF \E i \in 1..Len(seq) : seq[i] = x
  THEN (CHOOSE i \in 1..Len(seq) : seq[i] = x /\ \A j \in 1..(i - 1) : seq[j] # x) - 1
  ELSE -1

\* the decimal digits of a natural number
RECURSIVE NatToStr(_)
NatToStr(n) ==
  IF n < 10 THEN <<Digits[n + 1]>>
  ELSE NatToStr(n \div 10) \o <<Digits[(n % 10) + 1]>>

\* the values a JavaScript number takes outside the integers modelled here:
\* the results of a division by zero
Infinity == 2147483647

NaN == 2147483646

IsFinite(x) == x # Infinity /\ x # -Infinity /\ x # NaN

\* `${n}` for a JavaScript number holding an integer
NumToStr(n) ==
  IF n = NaN THEN <<"N", "a", "N">>
  ELSE IF n = Infinity THEN <<"I", "n", "f", "i", "n", "i", "t", "y">>
  ELSE IF n = -Infinity THEN <<"-", "I", "n", "f", "i", "n", "i", "t", "y">>
  ELSE IF n < 0 THEN <<"-">> \o NatToStr(-n)
  ELSE NatToStr(n)

(***************************************************************************)
(* Note names (lib/piano.ts, lib/tuning.ts)                                *)
(***************************************************************************)
\* an argument left out of a call
undefined == "undefined"

\* the order of the pitch classes, C first
noteNames ==
  << <<"C">>, <<"C", "#">>, <<"D">>, <<"D", "#">>, <<"E">>, <<"F">>,
     <<"F", "#">>, <<"G">>, <<"G", "#">>, <<"A">>, <<"A", "#">>, <<"B">> >>

NoteLetters == {"A", "B", "C", "D", "E", "F", "G"}

\* the regular expression with H among its letters
MatchesAtThroughH(s, i) ==
  /\ i <= Len(s)
  /\ s[i] \in NoteLetters \cup {"H"}
  /\ \/ i + 2 <= Len(s) /\ s[i + 1] = "#" /\ IsDigit(s[i + 2])
     \/ i + 1 <= Len(s) /\ IsDigit(s[i + 1])

\* the regular expression /([A-G]#?)(\d)/ matches at position i of s
MatchesAt(s, i) ==
  /\ i <= Len(s)
  /\ s[i] \in NoteLetters
  /\ \/ i + 2 <= Len(s) /\ s[i + 1] = "#" /\ IsDigit(s[i + 2])
     \/ i + 1 <= Len(s) /\ IsDigit(s[i + 1])

\* String.prototype.match: the groups <<letter and sharp, digit>> of the
\* leftmost match, or <<>> (null) when there is none
NoteMatch(s) ==
  IF \E i \in 1..Len(s) : MatchesAt(s, i)
  THEN With(CHOOSE k \in 1..Len(s) :
              MatchesAt(s, k) /\ \A j \in 1..(k - 1) : ~MatchesAt(s, j),
            LAMBDA i : IF s[i + 1] = "#" THEN << <<s[i], "#">>, s[i + 2] >>
                       ELSE << <<s[i]>>, s[i + 1] >>)
  ELSE <<>>

\* getBaseNoteName keeping the letter only
getBaseNoteNameLetterOnly(noteName) ==
  With(NoteMatch(noteName),
       LAMBDA match : IF match = <<>> THEN <<>> ELSE <<match[1][1]>>)

getBaseNoteName(noteName) ==
  With(NoteMatch(noteName),
       LAMBDA match : IF match = <<>> THEN <<>> ELSE match[1])

\* getNoteOctave with octave 0 for a name that does not match
getNoteOctaveDefaultZero(noteName) ==
  With(NoteMatch(noteName),
       LAMBDA match : IF match = <<>> THEN 0 ELSE DigitVal(match[2]))

getNoteOctave(noteName) ==
  With(NoteMatch(noteName),
       LAMBDA match : IF match = <<>> THEN 4 ELSE DigitVal(match[2]))

\* the outcome of a function that may throw: a returned value, or the
\* Error thrown on a name that does not match
Return(v) == [threw |-> FALSE, value |-> v]

Throw == [threw |-> TRUE]

\* getMidiNoteNumber with the octave number not raised by one
getMidiNoteNumberFromOctaveZero(noteName) ==
  With(NoteMatch(noteName), LAMBDA noteMatch :
    IF noteMatch = <<>> THEN Throw
    ELSE Return(IndexOf(noteNames, noteMatch[1])
                  + DigitVal(noteMatch[2]) * 12))

getMidiNoteNumber(noteName) ==
  With(NoteMatch(noteName), LAMBDA noteMatch :
    IF noteMatch = <<>> THEN Throw
    ELSE Return(IndexOf(noteNames, noteMatch[1])
                  + (DigitVal(noteMatch[2]) + 1) * 12))

getNoteSemitones(noteName) ==
  With(getMidiNoteNumber(noteName), LAMBDA midiNote :
    IF midiNote.threw THEN Throw
    ELSE With(getMidiNoteNumber(<<"A", "4">>), LAMBDA midiA4 :
           Return(midiNote.value - midiA4.value)))

\* `${note}${octave}`
FullNote(note, octave) == note \o NumToStr(octave)

\* the two tests of the inner loop with the first applied in every octave
RangeSkipsInEveryOctave(octave, note, startOctaveNum, startNoteName, endOctaveNum, endNoteName) ==
  \/ IndexOf(noteNames, note) < IndexOf(noteNames, startNoteName)
  \/ octave = endOctaveNum
       /\ IndexOf(noteNames, note) > IndexOf(noteNames, endNoteName)

\* the two tests of the inner loop that end in continue: a note before the
\* start note in the start octave, a note after the end note in the end octave
RangeSkips(octave, note, startOctaveNum, startNoteName, endOctaveNum, endNoteName) ==
  \/ octave = startOctaveNum
       /\ IndexOf(noteNames, note) < IndexOf(noteNames, startNoteName)
  \/ octave = endOctaveNum
       /\ IndexOf(noteNames, note) > IndexOf(noteNames, endNoteName)

\* the two nested loops: the <<octave, index into notes>> pairs in the order
\* of iteration, those the two tests skip removed, and the key pushed for
\* each of the others
getStandardNoteRange(startNote, endNote) ==
  LET startMatch == NoteMatch(startNote)
      endMatch   == NoteMatch(endNote)
  IN  IF startMatch = <<>> \/ endMatch = <<>> THEN Throw
      ELSE
        LET startNoteName  == startMatch[1]
            endNoteName    == endMatch[1]
            startOctaveNum == DigitVal(startMatch[2])
            endOctaveNum   == DigitVal(endMatch[2])
            all  == [i \in 1..(12 * (endOctaveNum - startOctaveNum + 1)) |->
                       <<startOctaveNum + ((i - 1) \div 12), 1 + ((i - 1) % 12)>>]
        IN  With(SelectSeq(all, LAMBDA pr :
                   ~RangeSkips(pr[1], noteNames[pr[2]], startOctaveNum,
                               startNoteName, endOctaveNum, endNoteName)),
                 LAMBDA kept :
              Return([i \in 1..Len(kept) |->
                        [note    |-> FullNote(noteNames[kept[i][2]], kept[i][1]),
                         isBlack |-> \E j \in 1..Len(noteNames[kept[i][2]]) :
                                       noteNames[kept[i][2]][j] = "#"]]))

(***************************************************************************)
(* lib/tuning.ts                                                           *)
(***************************************************************************)
\* the first element of seq from position i on that is not a space, or
\* Len(seq) + 1
RECURSIVE SkipSpaces(_, _)
SkipSpaces(seq, i) ==
  IF i <= Len(seq) /\ seq[i] = " " THEN SkipSpaces(seq, i + 1) ELSE i

\* the value of the digits of seq from position i on, after acc
RECURSIVE DigitsValue(_, _, _)
DigitsValue(seq, i, acc) ==
  IF i <= Len(seq) /\ IsDigit(seq[i])
  THEN DigitsValue(seq, i + 1, 10 * acc + DigitVal(seq[i]))
  ELSE acc

\* parseInt(str): leading white space, an optional sign, then the longest
\* run of decimal digits; NaN when there is no digit
parseInt(str) ==
  With(SkipSpaces(str, 1), LAMBDA i :
    LET neg == i <= Len(str) /\ str[i] = "-"
        j   == IF i <= Len(str) /\ str[i] \in {"-", "+"} THEN i + 1 ELSE i
    IN  IF j <= Len(str) /\ IsDigit(str[j])
        THEN (IF neg THEN -1 ELSE 1) * DigitsValue(str, j, 0)
        ELSE NaN)

\* the position of the first "/" of seq from position i on, or Len(seq) + 1
RECURSIVE SlashFrom(_, _)
SlashFrom(seq, i) ==
  IF i <= Len(seq) /\ seq[i] # "/" THEN SlashFrom(seq, i + 1) ELSE i

\* parseRatioString without the test of a zero denominator
parseRatioStringAnyDenominator(ratioStr) ==
  IF ratioStr = <<>> \/ SlashFrom(ratioStr, 1) > Len(ratioStr)
  THEN <<1, 1>>
  ELSE With(SlashFrom(ratioStr, 1), LAMBDA s1 :
         LET numStr   == SubSeq(ratioStr, 1, s1 - 1)
             denomStr == SubSeq(ratioStr, s1 + 1,
                                SlashFrom(ratioStr, s1 + 1) - 1)
         IN  With(parseInt(numStr), LAMBDA num :
               With(parseInt(denomStr), LAMBDA denom :
                 IF num = NaN \/ denom = NaN THEN <<1, 1>>
                 ELSE <<num, denom>>)))

parseRatioString(ratioStr) ==
  IF ratioStr = <<>> \/ SlashFrom(ratioStr, 1) > Len(ratioStr)
  THEN <<1, 1>>
  ELSE With(SlashFrom(ratioStr, 1), LAMBDA s1 :
         LET numStr   == SubSeq(ratioStr, 1, s1 - 1)
             denomStr == SubSeq(ratioStr, s1 + 1,
                                SlashFrom(ratioStr, s1 + 1) - 1)
         IN  With(parseInt(numStr), LAMBDA num :
               With(parseInt(denomStr), LAMBDA denom :
                 IF num = NaN \/ denom = NaN \/ denom = 0 THEN <<1, 1>>
                 ELSE <<num, denom>>)))

\* a*b/c rounded to the nearest integer, halves up
MulDivRound(a, b, c) ==
  With(MulDivQR(a, b, c),
       LAMBDA qr : IF 2 * qr[2] >= c THEN qr[1] + 1 ELSE qr[1])

\* the number of units of 0.00001 Hz in 0.01 Hz: the precision kept
\* before the result is rounded by toFixed(2)
FINE == 10 ^ 3

\* Math.pow(2, -9/12): from A4 down to C4
C4FromA4 == Pow2Cents(-9000)[1]

\* a*b/c in units of 0.00001 Hz cut, not rounded, to hundredths of a hertz
ToFixed2Truncated(a, b, c) ==
  With(MulDivWide(a, b, c), LAMBDA w : w[1] * (ONE \div FINE) + w[2] \div FINE)

\* parseFloat(x.toFixed(2)) for x = a*b/c in units of 0.00001 Hz: hundredths
\* of a hertz
ToFixed2(a, b, c) ==
  With(MulDivWide(a, b, c), LAMBDA w :
    w[1] * (ONE \div FINE)
      + DivRound(w[2] + (IF 2 * w[3] >= c THEN 1 ELSE 0), FINE))

\* c4Frequency * octaveMultiplier, in units of 0.00001 Hz
cInTargetOctave(noteName, baseFrequency) ==
  With(MulOneRound(baseFrequency * FINE, C4FromA4), LAMBDA c4Frequency :
    With(getNoteOctave(noteName) - 4, LAMBDA octaveDiff :
      IF octaveDiff >= 0 THEN c4Frequency * TwoTo(octaveDiff)
      ELSE DivRound(c4Frequency, TwoTo(-octaveDiff))))

\* the branch of a ratio that is not 1/1: cInTargetOctave * justRatio, with
\* the results of a division by zero
justFrequency(cInOctave, ratioNumerator, ratioDenominator) ==
  IF ratioDenominator = 0
  THEN IF ratioNumerator = 0 \/ cInOctave = 0 THEN NaN
       ELSE Sign(ratioNumerator) * Infinity
  ELSE Sign(ratioNumerator) * Sign(ratioDenominator)
         * ToFixed2(cInOctave, Abs(ratioNumerator), Abs(ratioDenominator))

\* the branch of the ratio 1/1: cInTargetOctave * centsRatio
centsFrequency(cInOctave, cents) ==
  With(Pow2Cents(cents),
       LAMBDA centsRatio : ToFixed2(cInOctave, centsRatio[1], centsRatio[2]))

\* calculateFrequency without the case of the reference note
calculateFrequencyWithoutReference(noteName, baseFrequency, ratioNumerator, ratioDenominator, cents) ==
  With(cInTargetOctave(noteName, baseFrequency), LAMBDA cInOctave :
    IF ratioNumerator # 1 \/ ratioDenominator # 1
    THEN justFrequency(cInOctave, ratioNumerator, ratioDenominator)
    ELSE centsFrequency(cInOctave, cents))

\* calculateFrequency taking the ratio only when both of its terms differ
\* from 1
calculateFrequencyBothTerms(noteName, baseFrequency, ratioNumerator, ratioDenominator, cents) ==
  IF noteName = <<"A", "4">> THEN baseFrequency
  ELSE With(cInTargetOctave(noteName, baseFrequency), LAMBDA cInOctave :
         IF ratioNumerator # 1 /\ ratioDenominator # 1
         THEN justFrequency(cInOctave, ratioNumerator, ratioDenominator)
         ELSE centsFrequency(cInOctave, cents))

calculateFrequency(noteName, baseFrequency, ratioNumerator, ratioDenominator, cents) ==
  IF noteName = <<"A", "4">> THEN baseFrequency
  ELSE With(cInTargetOctave(noteName, baseFrequency), LAMBDA cInOctave :
         IF ratioNumerator # 1 \/ ratioDenominator # 1
         THEN justFrequency(cInOctave, ratioNumerator, ratioDenominator)
         ELSE centsFrequency(cInOctave, cents))

\* 1200 * Math.log2(numerator / denominator) in units of 0.05 cents, rounded
\* down, for a positive ratio
ratioToCents(numerator, denominator) ==
  With(OctavesOf(numerator, denominator), LAMBDA k :
    LET n == IF k < 0 THEN numerator * TwoTo(-k) ELSE numerator
        d == IF k > 0 THEN denominator * TwoTo(k) ELSE denominator
    IN  24000 * k + Log2Bits(MulDiv(ONE, n, d), 15, ONE, 0))

\* parseFloat(c.toFixed(1)) for c in units of 0.05 cents: tenths of a cent
ToFixed1(c) == (c + 1) \div 2

maxIterations == 10

\* a * n1 + n2 with a one too large
NextConvergentRoundedUp(a, n1, n2) == (a + 1) * n1 + n2

\* the step of the loop on the numerators and on the denominators:
\* a * n1 + n2, a * d1 + d2
NextConvergent(a, n1, n2) == a * n1 + n2

\* the loop of centsToRatio from iteration i on: ratio is the target, p/q the
\* remainder r (an exact fraction), n1/d1 and n2/d2 the last two convergents;
\* epsilon = 1.0e-6 is ratio[2] / 1000000 in units of 1 / ratio[2]
RECURSIVE ContinuedFraction(_, _, _, _, _, _, _, _)
ContinuedFraction(i, ratio, p, q, n1, d1, n2, d2) ==
  IF i >= maxIterations THEN <<n1, d1>>
  ELSE LET a       == p \div q
           nn      == NextConvergent(a, n1, n2)
           dd      == NextConvergent(a, d1, d2)
           epsilon == ratio[2] \div 1000000
       IN  With(MulDivQR(ratio[2], nn, dd), LAMBDA newRatio :
             IF \/ /\ newRatio[1] < ratio[1] + epsilon
                   /\ \/ newRatio[1] > ratio[1] - epsilon
                      \/ newRatio[1] = ratio[1] - epsilon /\ newRatio[2] > 0
                \/ (p % q) <= (q - 1) \div 1000000
             THEN <<nn, dd>>
             ELSE ContinuedFraction(i + 1, ratio, q, p % q, nn, dd, n1, d1))

\* centsToRatio with epsilon = 1.0e-3 in the test of a ratio next to 1
centsToRatioCoarseUnison(cents) ==
  With(Pow2Cents(cents), LAMBDA ratio :
    IF Abs(ratio[1] - ratio[2]) <= (ratio[2] - 1) \div 1000 THEN <<1, 1>>
    ELSE IF ratio[1] \div 10 < ratio[2]
      THEN ContinuedFraction(0, ratio, ratio[1], ratio[2], 1, 0, 0, 1)
    ELSE With(MulDivRound(ratio[1], 1000, ratio[2]), LAMBDA decimalDigits :
           IF decimalDigits % 1000 = 0 THEN <<decimalDigits \div 1000, 1>>
           ELSE <<MulDivRound(ratio[1], 100, ratio[2]), 100>>))

centsToRatio(cents) ==
  With(Pow2Cents(cents), LAMBDA ratio :
    IF Abs(ratio[1] - ratio[2]) <= (ratio[2] - 1) \div 1000000 THEN <<1, 1>>
    ELSE IF ratio[1] \div 10 < ratio[2]
      THEN ContinuedFraction(0, ratio, ratio[1], ratio[2], 1, 0, 0, 1)
    ELSE With(MulDivRound(ratio[1], 1000, ratio[2]), LAMBDA decimalDigits :
           IF decimalDigits % 1000 = 0 THEN <<decimalDigits \div 1000, 1>>
           ELSE <<MulDivRound(ratio[1], 100, ratio[2]), 100>>))

\* a table keyed by pitch class, from its values in the order of noteNames
Keyed(values) ==
  [note \in {noteNames[k] : k \in 1..12} |-> values[IndexOf(noteNames, note) + 1]]

\* justRatios with the sixth of the Pythagorean table
justRatiosPythagoreanSixth ==
  Keyed(<< <<1, 1>>, <<16, 15>>, <<9, 8>>, <<6, 5>>, <<5, 4>>, <<4, 3>>,
           <<45, 32>>, <<3, 2>>, <<8, 5>>, <<27, 16>>, <<9, 5>>, <<15, 8>> >>)

justRatios ==
  Keyed(<< <<1, 1>>, <<16, 15>>, <<9, 8>>, <<6, 5>>, <<5, 4>>, <<4, 3>>,
           <<45, 32>>, <<3, 2>>, <<8, 5>>, <<5, 3>>, <<9, 5>>, <<15, 8>> >>)

pythagoreanRatios ==
  Keyed(<< <<1, 1>>, <<2187, 2048>>, <<9, 8>>, <<32, 27>>, <<81, 64>>,
           <<4, 3>>, <<729, 512>>, <<3, 2>>, <<6561, 4096>>, <<27, 16>>,
           <<16, 9>>, <<243, 128>> >>)

meantoneCents ==
  Keyed(<<0, 760, 1932, 3103, 3863, 5034, 5795, 6966, 7726, 8897, 10068, 10829>>)

werckmeisterCents ==
  Keyed(<<0, 902, 1961, 2941, 3922, 4980, 5883, 6980, 7922, 8941, 9961, 10922>>)

kirnbergerCents ==
  Keyed(<<0, 902, 2040, 2941, 3863, 4980, 5902, 7020, 7922, 8951, 9961, 10883>>)

\* the cents of equal temperament counted from A
equalTemperamentCentsFromA ==
  Keyed(<<3000, 4000, 5000, 6000, 7000, 8000, 9000, 10000, 11000, 0, 1000, 2000>>)

equalTemperamentCents ==
  Keyed(<<0, 1000, 2000, 3000, 4000, 5000, 6000, 7000, 8000, 9000, 10000, 11000>>)

\* `${num}/${denom}`
RatioString(num, denom) == NumToStr(num) \o <<"/">> \o NumToStr(denom)

\* the entry of baseNoteRatios built from a ratio of a table of ratios
FromRatio(r) ==
  [ratioNumerator |-> r[1], ratioDenominator |-> r[2],
   ratio |-> RatioString(r[1], r[2]),
   cents |-> ToFixed1(ratioToCents(r[1], r[2]))]

\* the entry for a value of a table of cents with the ratio 1/1
FromCentsUnison(c) ==
  [ratioNumerator |-> 1, ratioDenominator |-> 1,
   ratio |-> <<"1", "/", "1">>, cents |-> c]

\* the entry of baseNoteRatios built from a value of a table of cents
FromCents(c) ==
  With(centsToRatio(c), LAMBDA r :
    [ratioNumerator |-> r[1], ratioDenominator |-> r[2],
     ratio |-> RatioString(r[1], r[2]), cents |-> c])

\* the entry for a note of equal temperament with the ratio of its cents
FromEqualAsRatio(c) == FromCents(c)

\* the entry of baseNoteRatios for a note of equal temperament
FromEqual(c) ==
  [ratioNumerator |-> 1, ratioDenominator |-> 1,
   ratio |-> <<"1", "/", "1">>, cents |-> c]

\* for (const note of noteNames) baseNoteRatios[note] = ... : the entries
\* of the first k notes, in the order of noteNames
RECURSIVE ForNoteNames(_, _)
ForNoteNames(tuningSystem, k) ==
  IF k = 0 THEN <<>>
  ELSE LET note == noteNames[k]
       IN  Append(ForNoteNames(tuningSystem, k - 1),
             IF tuningSystem = "just" THEN FromRatio(justRatios[note])
             ELSE IF tuningSystem = "pythagorean"
               THEN FromRatio(pythagoreanRatios[note])
             ELSE IF tuningSystem = "quarter"
               THEN FromCents(meantoneCents[note])
             ELSE IF tuningSystem = "werckmeister3"
               THEN FromCents(werckmeisterCents[note])
             ELSE IF tuningSystem = "kirnberger3"
               THEN FromCents(kirnbergerCents[note])
             ELSE FromEqual(equalTemperamentCents[note]))

\* the tuning of the 12 pitch classes for a tuning system, indexed as
\* noteNames
baseNoteRatios(tuningSystem) == ForNoteNames(tuningSystem, 12)

\* the <<octave, index into noteNames>> pairs of the two generating loops
\* in the order of iteration, with no range test
KeptPairsWholeOctaves ==
  [i \in 1..60 |-> <<2 + ((i - 1) \div 12), 1 + ((i - 1) % 12)>>]

\* the <<octave, index into noteNames>> pairs of the two generating loops
\* in the order of iteration, without those the range test skips: octaves 2
\* to 6, nothing below A in octave 2, nothing above C in octave 6
KeptPairs ==
  LET all == [i \in 1..60 |-> <<2 + ((i - 1) \div 12), 1 + ((i - 1) % 12)>>]
      skip(octave, noteName) ==
        \/ octave = 2
             /\ IndexOf(noteNames, noteName) < IndexOf(noteNames, <<"A">>)
        \/ octave = 6
             /\ IndexOf(noteNames, noteName) > IndexOf(noteNames, <<"C">>)
  IN  SelectSeq(all, LAMBDA pr : ~skip(pr[1], noteNames[pr[2]]))

\* the keys of a map built by initializeTunings, in insertion order
InsertionOrder ==
  With(KeptPairs, LAMBDA kept :
    [i \in 1..Len(kept) |-> FullNote(noteNames[kept[i][2]], kept[i][1])])

initializeTunings(baseFrequency, tuningSystem) ==
  With(baseNoteRatios(IF tuningSystem = undefined THEN "equal"
                      ELSE tuningSystem), LAMBDA table :
    With(InsertionOrder, LAMBDA keys :
      [fullNote \in {keys[i] : i \in 1..Len(keys)} |->
         With(KeptPairs[IndexOf(keys, fullNote) + 1], LAMBDA pr :
           IF fullNote = <<"A", "4">>
           THEN With(table[IndexOf(noteNames, <<"A">>) + 1], LAMBDA aBaseNote :
                  [name |-> fullNote, baseName |-> noteNames[pr[2]],
                   ratio |-> aBaseNote.ratio,
                   ratioNumerator |-> aBaseNote.ratioNumerator,
                   ratioDenominator |-> aBaseNote.ratioDenominator,
                   cents |-> aBaseNote.cents,
                   frequency |-> baseFrequency])
           ELSE With(table[pr[2]], LAMBDA baseRatio :
                  [name |-> fullNote, baseName |-> noteNames[pr[2]],
                   ratio |-> baseRatio.ratio,
                   ratioNumerator |-> baseRatio.ratioNumerator,
                   ratioDenominator |-> baseRatio.ratioDenominator,
                   cents |-> baseRatio.cents,
                   frequency |-> calculateFrequency(fullNote, baseFrequency,
                                   baseRatio.ratioNumerator,
                                   baseRatio.ratioDenominator,
                                   baseRatio.cents)]))]))

(***************************************************************************)
(* pages/Piano.tsx: the state of the Piano page                            *)
(***************************************************************************)
VARIABLES
  baseFrequency,        \* useState<number>(440), in hundredths of a hertz
  noteConfigurations,   \* useState<Record<string, Note>>
  tuningMethod,         \* "ratio" or "cents"
  currentTuningSystem,  \* the label of the selected preset
  lastOp,               \* the handler that ran last, with its arguments
  edits,                \* the number of updateNoteConfig calls so far
  audioCtx,             \* useState<AudioContext | null>(null)
  activeOscillators,    \* useState<Record<string, OscillatorNode>>
  activeGainNodes,      \* useState<Record<string, GainNode>>
  currentlyPlaying,     \* useState<CurrentlyPlaying | null>(null)
  oscillators,          \* the oscillator nodes created in the audio context
  timers,               \* the setTimeout callbacks not yet run
  now,                  \* the time, in seconds
  tuningConfigs,        \* MemStorage.tuningConfigs
  tuningIdCounter,      \* MemStorage.tuningIdCounter
  response              \* the answer to the last request

\* the state of the player of the Piano page
playerVars == <<audioCtx, activeOscillators, activeGainNodes, currentlyPlaying,
                oscillators, timers, now>>

\* the state of the server
serverVars == <<tuningConfigs, tuningIdCounter, response>>

vars == <<baseFrequency, noteConfigurations, tuningMethod, currentTuningSystem,
          lastOp, edits, playerVars, serverVars>>

null == "null"

\* the player before the first key is pressed
Silent ==
  /\ audioCtx = null
  /\ activeOscillators = <<>>
  /\ activeGainNodes = <<>>
  /\ currentlyPlaying = null
  /\ oscillators = <<>>
  /\ timers = {}
  /\ now = 0

\* new MemStorage(), before the first request
Constructed ==
  /\ tuningConfigs = <<>>
  /\ tuningIdCounter = 1
  /\ response = null

\* the base frequencies the user sets: the two preset buttons
BaseFrequencies == {43200, 44000}

\* the names passed to selectTuningSystem: the default, a system tabulated
\* in ratios and one tabulated in cents
TuningSystems == {"equal", "just", "quarter"}

\* the notes whose row is edited
EditNotes == {<<"C", "4">>, <<"A", "4">>}

\* the partial notes passed to updateNoteConfig: the cents input, a typed
\* ratio string, and the numerator input with 0 typed in (its min of 1 only
\* limits the spinner)
PartialNotes ==
  {[cents |-> 7020], [ratio |-> <<"7", "/", "4">>], [ratioNumerator |-> 0]}

\* the number of updateNoteConfig calls explored
MaxEdits == 1

\* Recomputed with the cents of every note reset
RecomputedResettingCents(notes, base) ==
  [noteName \in DOMAIN notes |->
     [notes[noteName] EXCEPT !.cents = 0, !.frequency =
        calculateFrequency(noteName, base, notes[noteName].ratioNumerator,
                           notes[noteName].ratioDenominator, 0)]]

\* the map with the frequency of every note recomputed from base
Recomputed(notes, base) ==
  [noteName \in DOMAIN notes |->
     [notes[noteName] EXCEPT !.frequency =
        calculateFrequency(noteName, base, notes[noteName].ratioNumerator,
                           notes[noteName].ratioDenominator,
                           notes[noteName].cents)]]

presets(system) ==
  IF system = "equal" THEN "Equal Temperament"
  ELSE IF system = "just" THEN "Just Intonation"
  ELSE IF system = "pythagorean" THEN "Pythagorean"
  ELSE IF system = "quarter" THEN "Quarter-comma Meantone"
  ELSE IF system = "werckmeister3" THEN "Werckmeister III"
  ELSE IF system = "kirnberger3" THEN "Kirnberger III"
  ELSE system

\* the state once the page is mounted: the two effects have run
Init ==
  /\ baseFrequency = 44000
  /\ noteConfigurations = initializeTunings(44000, undefined)
  /\ tuningMethod = "cents"
  /\ currentTuningSystem = "Equal Temperament"
  /\ lastOp = [op |-> "mount"]
  /\ edits = 0
  /\ Silent
  /\ Constructed

\* setBaseFrequency(freq) and the effect that depends on baseFrequency
SetBaseFrequency(freq) ==
  /\ freq # baseFrequency
  /\ baseFrequency' = freq
  /\ noteConfigurations' =
       IF DOMAIN noteConfigurations # {}
       THEN Recomputed(noteConfigurations, freq)
       ELSE noteConfigurations
  /\ lastOp' = [op |-> "setBaseFrequency"]
  /\ UNCHANGED <<tuningMethod, currentTuningSystem, edits, playerVars, serverVars>>

selectTuningSystem(system) ==
  /\ currentTuningSystem' = presets(system)
  /\ noteConfigurations' = initializeTunings(baseFrequency, system)
  /\ lastOp' = [op |-> "selectTuningSystem"]
  /\ UNCHANGED <<baseFrequency, tuningMethod, edits, playerVars, serverVars>>

\* { ...noteConfigurations[noteName], ...partialNote } with the ratio string
\* parsed and the frequency recomputed
UpdatedNote(note, noteName, partialNote, base) ==
  With([field \in DOMAIN note |->
          IF field \in DOMAIN partialNote THEN partialNote[field]
          ELSE note[field]], LAMBDA merged :
    With(IF "ratio" \in DOMAIN partialNote /\ partialNote.ratio # <<>>
         THEN With(parseRatioString(partialNote.ratio), LAMBDA r :
                [merged EXCEPT !.ratioNumerator = r[1],
                               !.ratioDenominator = r[2]])
         ELSE merged, LAMBDA parsed :
      [parsed EXCEPT !.frequency =
         calculateFrequency(noteName, base, parsed.ratioNumerator,
                            parsed.ratioDenominator, parsed.cents)]))

updateNoteConfig(noteName, partialNote) ==
  /\ edits < MaxEdits
  /\ edits' = edits + 1
  /\ noteConfigurations' =
       IF noteName \in DOMAIN noteConfigurations
       THEN [noteConfigurations EXCEPT ![noteName] =
               UpdatedNote(noteConfigurations[noteName], noteName,
                           partialNote, baseFrequency)]
       ELSE noteConfigurations
  /\ lastOp' = [op |-> "updateNoteConfig"]
  /\ UNCHANGED <<baseFrequency, tuningMethod, currentTuningSystem, playerVars, serverVars>>

applyTuning ==
  /\ noteConfigurations' = Recomputed(noteConfigurations, baseFrequency)
  /\ lastOp' = [op |-> "applyTuning"]
  /\ UNCHANGED <<baseFrequency, tuningMethod, currentTuningSystem, edits, playerVars, serverVars>>

\* Object.keys(notes): the keys in insertion order
Keys(notes) == SelectSeq(InsertionOrder, LAMBDA key : key \in DOMAIN notes)

\* the positions in keys of the first note of each base name that is not
\* empty: the set baseNotes in the order forEach visits it, and for each of
\* its elements the note that find returns
FirstOfBaseNotes(notes, keys) ==
  SelectSeq([i \in 1..Len(keys) |-> i],
            LAMBDA i : /\ notes[keys[i]].baseName # <<>>
                       /\ \A j \in 1..(i - 1) :
                            notes[keys[j]].baseName # notes[keys[i]].baseName)

\* what the body of baseNotes.forEach writes to the notes with the base name
\* of note, the first one with this base name: the converted fields, or none
ConvertedFields(note, method) ==
  IF note.baseName = <<"A">> THEN [baseName |-> note.baseName]
  ELSE IF method = "cents" /\ note.ratioNumerator > 0
            /\ note.ratioDenominator > 0
    THEN [baseName |-> note.baseName,
          cents |-> ToFixed1(ratioToCents(note.ratioNumerator,
                                          note.ratioDenominator))]
  ELSE IF method = "ratio" /\ note.cents # 0
    THEN With(centsToRatio(note.cents), LAMBDA r :
           [baseName |-> note.baseName,
            ratioNumerator |-> r[1], ratioDenominator |-> r[2],
            ratio |-> RatioString(r[1], r[2])])
  ELSE [baseName |-> note.baseName]

\* the fields written for each of the first k base names
RECURSIVE ForEachBaseNote(_, _, _, _, _)
ForEachBaseNote(notes, keys, method, firsts, k) ==
  IF k = 0 THEN <<>>
  ELSE Append(ForEachBaseNote(notes, keys, method, firsts, k - 1),
              ConvertedFields(notes[keys[firsts[k]]], method))

\* the note map after the conversion of every base note but A
Converted(notes, method) ==
  With(Keys(notes), LAMBDA keys :
    With(FirstOfBaseNotes(notes, keys), LAMBDA firsts :
      With(ForEachBaseNote(notes, keys, method, firsts, Len(firsts)),
           LAMBDA written :
        [key \in DOMAIN notes |->
           IF notes[key].baseName = <<>> THEN notes[key]
           ELSE With(written[CHOOSE k \in 1..Len(written) :
                               written[k].baseName = notes[key].baseName],
                     LAMBDA fields :
                  [field \in DOMAIN notes[key] |->
                     IF field \in DOMAIN fields THEN fields[field]
                     ELSE notes[key][field]])])))

handleTuningMethodChange(method) ==
  /\ method # tuningMethod
  /\ noteConfigurations' = Converted(noteConfigurations, method)
  /\ tuningMethod' = method
  /\ lastOp' = [op |-> "handleTuningMethodChange"]
  /\ UNCHANGED <<baseFrequency, currentTuningSystem, edits, playerVars, serverVars>>

Next ==
  \/ \E freq \in BaseFrequencies : SetBaseFrequency(freq)
  \/ \E system \in TuningSystems : selectTuningSystem(system)
  \/ \E noteName \in EditNotes, partialNote \in PartialNotes :
       updateNoteConfig(noteName, partialNote)
  \/ applyTuning
  \/ \E method \in {"ratio", "cents"} : handleTuningMethodChange(method)

Spec == Init /\ [][Next]_vars

TypeOK ==
  /\ baseFrequency \in BaseFrequencies
  /\ tuningMethod \in {"ratio", "cents"}
  /\ edits \in 0..MaxEdits

\* a note as the server stores it
SavedNote(name, baseName, num, denom, cents, frequency) ==
  [name |-> name, baseName |-> baseName, ratio |-> RatioString(num, denom),
   ratioNumerator |-> num, ratioDenominator |-> denom, cents |-> cents,
   frequency |-> frequency]

\* the configurations GET /api/tuning-configs/:id answers with: three notes
\* saved at 440 Hz under a record of 432 Hz, and three just notes at 440 Hz
SavedConfigs ==
  {[baseFrequency |-> 43200,
    notes |->
      (<<"C", "4">> :> SavedNote(<<"C", "4">>, <<"C">>, 1, 1, 0, 26163))
      @@ (<<"C", "#", "4">> :>
            SavedNote(<<"C", "#", "4">>, <<"C", "#">>, 16, 15, 1000, 27718))
      @@ (<<"D", "4">> :> SavedNote(<<"D", "4">>, <<"D">>, 9, 8, 2000, 29366))],
   [baseFrequency |-> 44000,
    notes |->
      (<<"C", "4">> :> SavedNote(<<"C", "4">>, <<"C">>, 1, 1, 0, 26163))
      @@ (<<"E", "4">> :> SavedNote(<<"E", "4">>, <<"E">>, 5, 4, 3863, 32703))
      @@ (<<"A", "4">> :> SavedNote(<<"A", "4">>, <<"A">>, 5, 3, 8844, 44000))]}

\* a load that spreads the loaded notes over the map held before
LoadedOverPrevious(prev, config) ==
  [key \in DOMAIN prev \cup DOMAIN config.notes |->
     IF key \in DOMAIN config.notes THEN config.notes[key] ELSE prev[key]]

\* setNoteConfigurations(config.notes)
Loaded(prev, config) == config.notes

\* onSuccess of loadTuningMutation and the effect that depends on
\* baseFrequency: with the state updates batched the effect recomputes the
\* loaded notes; without, it runs on the map held before, which the loaded
\* notes then replace
loadTuningConfig(config) ==
  /\ baseFrequency' = config.baseFrequency
  /\ \E batched \in BOOLEAN :
       noteConfigurations' =
         IF batched /\ config.baseFrequency # baseFrequency
                    /\ DOMAIN Loaded(noteConfigurations, config) # {}
         THEN Recomputed(Loaded(noteConfigurations, config), config.baseFrequency)
         ELSE Loaded(noteConfigurations, config)
  /\ lastOp' = [op |-> "loadTuningConfig", config |-> config]
  /\ UNCHANGED <<tuningMethod, currentTuningSystem, edits, playerVars, serverVars>>

LoadNext ==
  \/ Next
  \/ \E config \in SavedConfigs : loadTuningConfig(config)

\* the page with the configurations of the server to load
LoadSpec == Init /\ [][LoadNext]_vars

(***************************************************************************)
(* pages/Piano.tsx: the player. A handler runs with the state of the       *)
(* render that created it: the callback given to setTimeout by playNote    *)
(* calls the stopNote of the render playNote ran in, so it reads the       *)
(* activeOscillators of that render, while its state updates               *)
(* (prev => ...) apply to the state held when it runs                      *)
(***************************************************************************)
\* decayLength: useState<number>(3.0), in seconds
decayLength == 3

\* the number of oscillators created
MaxTones == 3

\* the time the clock runs to
MaxTime == 5

\* the keys pressed and released: two keys of the keyboard and a name that
\* is no key of the note map
PlayNotes == {<<"C", "4">>, <<"A", "4">>, <<"C", "7">>}

\* const newOscillators = { ...prev }; delete newOscillators[noteName]
Without(prev, noteName) == [n \in DOMAIN prev \ {noteName} |-> prev[n]]

\* prev => ({ ...prev, [noteName]: node })
WithNode(prev, noteName, node) ==
  [n \in DOMAIN prev \cup {noteName} |-> IF n = noteName THEN node ELSE prev[n]]

\* activeOscillators[noteName].stop() where the render that created the
\* handler held an oscillator for the note
StoppedIn(closure, noteName) ==
  IF noteName \in DOMAIN closure
  THEN [oscillators EXCEPT ![closure[noteName]].stopped = TRUE]
  ELSE oscillators

\* stopNote(noteName) of the render whose activeOscillators is closure
stopNote(closure, noteName) ==
  IF noteName \in DOMAIN closure
  THEN /\ oscillators' = StoppedIn(closure, noteName)
       /\ activeOscillators' = Without(activeOscillators, noteName)
       /\ activeGainNodes' = Without(activeGainNodes, noteName)
       /\ currentlyPlaying' =
            IF Cardinality(DOMAIN closure) <= 1 THEN null ELSE currentlyPlaying
  ELSE UNCHANGED <<oscillators, activeOscillators, activeGainNodes,
                   currentlyPlaying>>

\* noteConfigurations[noteName].frequency || calculateFrequency(...)
PlayedFrequency(noteName) ==
  With(noteConfigurations[noteName], LAMBDA note :
    IF note.frequency # 0 /\ note.frequency # NaN THEN note.frequency
    ELSE calculateFrequency(noteName, baseFrequency, note.ratioNumerator,
                            note.ratioDenominator, note.cents))

\* playNote(noteName): the first call creates the audio context and
\* returns; a note that is playing is stopped first; the new oscillator is
\* started, stored, and a timer set to stop the note after decayLength
playNote(noteName) ==
  /\ lastOp' = [op |-> "playNote", noteName |-> noteName]
  /\ IF audioCtx = null
     THEN /\ audioCtx' = "AudioContext"
          /\ UNCHANGED <<activeOscillators, activeGainNodes, currentlyPlaying,
                         oscillators, timers>>
     ELSE IF noteName \notin DOMAIN noteConfigurations
     THEN UNCHANGED <<audioCtx, activeOscillators, activeGainNodes,
                      currentlyPlaying, oscillators, timers>>
     ELSE /\ Len(oscillators) < MaxTones
          /\ oscillators' =
               Append(StoppedIn(activeOscillators, noteName),
                      [note |-> noteName, frequency |-> PlayedFrequency(noteName),
                       started |-> now, stopped |-> FALSE])
          /\ activeOscillators' =
               WithNode(activeOscillators, noteName, Len(oscillators) + 1)
          /\ activeGainNodes' =
               WithNode(activeGainNodes, noteName, Len(oscillators) + 1)
          /\ currentlyPlaying' = [note |-> noteName,
                                  frequency |-> PlayedFrequency(noteName)]
          /\ timers' = timers \cup
               {[id |-> Len(oscillators) + 1, noteName |-> noteName,
                 due |-> now + decayLength,
                 activeOscillators |-> activeOscillators]}
          /\ UNCHANGED audioCtx
  /\ UNCHANGED <<baseFrequency, noteConfigurations, tuningMethod,
                 currentTuningSystem, edits, now, serverVars>>

\* a key or the mouse released: stopNote of the current render
ReleaseNote(noteName) ==
  /\ lastOp' = [op |-> "stopNote", noteName |-> noteName]
  /\ stopNote(activeOscillators, noteName)
  /\ UNCHANGED <<baseFrequency, noteConfigurations, tuningMethod,
                 currentTuningSystem, edits, audioCtx, timers, now, serverVars>>

\* a timer of playNote runs: stopNote of the render playNote ran in
Timeout ==
  \E timer \in timers :
    /\ timer.due <= now
    /\ lastOp' = [op |-> "timeout", noteName |-> timer.noteName]
    /\ stopNote(timer.activeOscillators, timer.noteName)
    /\ timers' = timers \ {timer}
    /\ UNCHANGED <<baseFrequency, noteConfigurations, tuningMethod,
                   currentTuningSystem, edits, audioCtx, now, serverVars>>

\* a second passes, once the timers due have run
Tick ==
  /\ now < MaxTime
  /\ \A timer \in timers : timer.due > now
  /\ now' = now + 1
  /\ UNCHANGED <<baseFrequency, noteConfigurations, tuningMethod,
                 currentTuningSystem, lastOp, edits, audioCtx, activeOscillators,
                 activeGainNodes, currentlyPlaying, oscillators, timers,
                 serverVars>>

PlayerNext ==
  \/ \E noteName \in PlayNotes : playNote(noteName)
  \/ \E noteName \in PlayNotes : ReleaseNote(noteName)
  \/ Timeout
  \/ Tick

\* the mounted page with its keyboard played
PlayerSpec == Init /\ [][PlayerNext]_vars

(***************************************************************************)
(* server/storage.ts and server/routes.ts: MemStorage and the routes of    *)
(* /api/tuning-configs. A request body is a record of the fields sent      *)
(***************************************************************************)
\* the number of configurations created
MaxConfigs == 2

\* the columns of insertTuningConfigSchema: those of the table but id
InsertFields == {"name", "baseFrequency", "decayLength", "notes", "createdBy"}

\* the columns that are notNull and have no default
RequiredFields == {"name", "notes"}

\* insertTuningConfigSchema.parse(body), or .partial().parse(body): a
\* ZodError for a required field left out, unless partial, and for a name
\* of null; else the fields of the schema, the others stripped
insertTuningConfigSchemaPassthrough(body, partial) ==
  IF \/ ~partial /\ ~(RequiredFields \subseteq DOMAIN body)
     \/ "name" \in DOMAIN body /\ body.name = null
  THEN Throw
  ELSE Return(body)

insertTuningConfigSchema(body, partial) ==
  IF \/ ~partial /\ ~(RequiredFields \subseteq DOMAIN body)
     \/ "name" \in DOMAIN body /\ body.name = null
  THEN Throw
  ELSE Return([field \in DOMAIN body \cap InsertFields |-> body[field]])

\* { ...existingConfig, ...config }
Spread(existingConfig, config) ==
  [field \in DOMAIN existingConfig \cup DOMAIN config |->
     IF field \in DOMAIN config THEN config[field] ELSE existingConfig[field]]

\* processedConfig: the defaults of the fields not provided
processedConfig(config) ==
  Spread(config,
    [baseFrequency |-> IF "baseFrequency" \in DOMAIN config
                           /\ config.baseFrequency # 0
                       THEN config.baseFrequency ELSE 44000,
     decayLength   |-> IF "decayLength" \in DOMAIN config
                           /\ config.decayLength # 0
                       THEN config.decayLength ELSE 3,
     createdBy     |-> IF "createdBy" \in DOMAIN config THEN config.createdBy
                       ELSE null])

\* this.tuningConfigs.set(id, config)
MapSet(configs, id, config) ==
  [key \in DOMAIN configs \cup {id} |-> IF key = id THEN config ELSE configs[key]]

\* this.tuningConfigs.delete(id)
MapDelete(configs, id) == [key \in DOMAIN configs \ {id} |-> configs[key]]

\* createTuningConfig taking the number of stored configurations plus one
\* as the id
createTuningConfigIdFromSize(configs, counter, config) ==
  With(Cardinality(DOMAIN configs) + 1, LAMBDA id :
    [tuningConfigs   |-> MapSet(configs, id,
                                Spread(processedConfig(config), [id |-> id])),
     tuningIdCounter |-> counter + 1,
     result          |-> Spread(processedConfig(config), [id |-> id])])

\* MemStorage.createTuningConfig(config) on the map configs and the
\* counter: the map and the counter after, and the value returned
createTuningConfig(configs, counter, config) ==
  With(counter, LAMBDA id :
    [tuningConfigs   |-> MapSet(configs, id,
                                Spread(processedConfig(config), [id |-> id])),
     tuningIdCounter |-> counter + 1,
     result          |-> Spread(processedConfig(config), [id |-> id])])

\* updateTuningConfig storing the update also under an id not stored
updateTuningConfigOfAnyId(configs, id, config) ==
  IF id \notin DOMAIN configs
  THEN [tuningConfigs |-> MapSet(configs, id, config), found |-> FALSE]
  ELSE [tuningConfigs |-> MapSet(configs, id, Spread(configs[id], config)),
        found |-> TRUE, result |-> Spread(configs[id], config)]

\* MemStorage.updateTuningConfig(id, config) on the map configs: the map
\* after, whether a configuration is returned rather than undefined, and it
updateTuningConfig(configs, id, config) ==
  IF id \notin DOMAIN configs
  THEN [tuningConfigs |-> configs, found |-> FALSE]
  ELSE [tuningConfigs |-> MapSet(configs, id, Spread(configs[id], config)),
        found |-> TRUE, result |-> Spread(configs[id], config)]

\* MemStorage.deleteTuningConfig(id)
deleteTuningConfig(configs, id) ==
  [tuningConfigs |-> MapDelete(configs, id), result |-> id \in DOMAIN configs]

\* the bodies of the requests: two complete configurations, one of them
\* with an id of its own, a base frequency alone, an id alone, and a name
\* of null
RequestBodies ==
  {[name |-> "Just",
    notes |-> (<<"G", "4">> :> SavedNote(<<"G", "4">>, <<"G">>, 3, 2, 7020, 39244))],
   [id |-> 7, name |-> "Meantone", baseFrequency |-> 43200, decayLength |-> 2,
    notes |-> (<<"G", "4">> :> SavedNote(<<"G", "4">>, <<"G">>, 1, 1, 6966, 38411)),
    createdBy |-> "ann"],
   [baseFrequency |-> 41500],
   [id |-> 9],
   [name |-> null]}

\* the :id of the requests: stored and not stored ids, digits followed by
\* a letter, and no number
IdParams == {<<"1">>, <<"2">>, <<"3">>, <<"2", "x">>, <<"a", "b", "c">>}

\* POST /tuning-configs
PostTuningConfigs(body) ==
  /\ tuningIdCounter <= MaxConfigs
  /\ lastOp' = [op |-> "POST", body |-> body]
  /\ With(insertTuningConfigSchema(body, FALSE), LAMBDA configData :
       IF configData.threw
       THEN /\ response' = [status |-> 400]
            /\ UNCHANGED <<tuningConfigs, tuningIdCounter>>
       ELSE With(createTuningConfig(tuningConfigs, tuningIdCounter,
                                    configData.value), LAMBDA created :
              /\ tuningConfigs' = created.tuningConfigs
              /\ tuningIdCounter' = created.tuningIdCounter
              /\ response' = [status |-> 201, body |-> created.result]))
  /\ UNCHANGED <<baseFrequency, noteConfigurations, tuningMethod,
                 currentTuningSystem, edits, playerVars>>

\* PUT /tuning-configs/:id
PutTuningConfig(idParam, body) ==
  /\ lastOp' = [op |-> "PUT", id |-> idParam, body |-> body]
  /\ With(parseInt(idParam), LAMBDA id :
       IF id = NaN
       THEN /\ response' = [status |-> 400]
            /\ UNCHANGED tuningConfigs
       ELSE With(insertTuningConfigSchema(body, TRUE), LAMBDA configData :
              IF configData.threw
              THEN /\ response' = [status |-> 400]
                   /\ UNCHANGED tuningConfigs
              ELSE With(updateTuningConfig(tuningConfigs, id, configData.value),
                        LAMBDA updated :
                     /\ tuningConfigs' = updated.tuningConfigs
                     /\ response' = IF ~updated.found
                                    THEN [status |-> 404]
                                    ELSE [status |-> 200,
                                          body |-> updated.result])))
  /\ UNCHANGED <<baseFrequency, noteConfigurations, tuningMethod,
                 currentTuningSystem, edits, playerVars, tuningIdCounter>>

\* DELETE /tuning-configs/:id
DeleteTuningConfig(idParam) ==
  /\ lastOp' = [op |-> "DELETE", id |-> idParam]
  /\ With(parseInt(idParam), LAMBDA id :
       IF id = NaN
       THEN /\ response' = [status |-> 400]
            /\ UNCHANGED tuningConfigs
       ELSE With(deleteTuningConfig(tuningConfigs, id), LAMBDA deleted :
              /\ tuningConfigs' = deleted.tuningConfigs
              /\ response' = IF deleted.result THEN [status |-> 204]
                             ELSE [status |-> 404]))
  /\ UNCHANGED <<baseFrequency, noteConfigurations, tuningMethod,
                 currentTuningSystem, edits, playerVars, tuningIdCounter>>

\* GET /tuning-configs/:id
GetTuningConfig(idParam) ==
  /\ lastOp' = [op |-> "GET", id |-> idParam]
  /\ With(parseInt(idParam), LAMBDA id :
       response' = IF id = NaN THEN [status |-> 400]
                   ELSE IF id \notin DOMAIN tuningConfigs THEN [status |-> 404]
                   ELSE [status |-> 200, body |-> tuningConfigs[id]])
  /\ UNCHANGED <<baseFrequency, noteConfigurations, tuningMethod,
                 currentTuningSystem, edits, playerVars, tuningConfigs,
                 tuningIdCounter>>

ServerNext ==
  \/ \E body \in RequestBodies : PostTuningConfigs(body)
  \/ \E idParam \in IdParams, body \in RequestBodies :
       PutTuningConfig(idParam, body)
  \/ \E idParam \in IdParams : DeleteTuningConfig(idParam)
  \/ \E idParam \in IdParams : GetTuningConfig(idParam)

\* the server after its start, no page rendered
ServerInit ==
  /\ baseFrequency = 44000
  /\ noteConfigurations = <<>>
  /\ tuningMethod = "cents"
  /\ currentTuningSystem = "Equal Temperament"
  /\ lastOp = [op |-> "listen"]
  /\ edits = 0
  /\ Silent
  /\ Constructed

ServerSpec == ServerInit /\ [][ServerNext]_vars

(***************************************************************************)
(* The library functions called on their own: the page before its mount    *)
(* effect, lastOp holding the arguments of the call and then its result    *)
(***************************************************************************)
\* useState<Record<string, Note>>({})
NoNotes == <<>>

\* the page as first rendered, with the arguments of a call to come
Rendered(base, args) ==
  /\ baseFrequency = base
  /\ noteConfigurations = NoNotes
  /\ tuningMethod = "cents"
  /\ currentTuningSystem = "Equal Temperament"
  /\ lastOp \in args
  /\ edits = 0
  /\ Silent
  /\ Constructed

\* the note names given to getMidiNoteNumber and getNoteSemitones: the 12
\* pitch classes with every digit, and names of other shapes
NoteNameInputs ==
  {noteNames[k] \o <<Digits[d]>> : k \in 1..12, d \in 1..10}
    \cup {<<>>, <<"C">>, <<"4">>, <<"H", "4">>, <<"c", "4">>,
          <<"i", "n", "v", "a", "l", "i", "d">>, <<"C", "#">>,
          <<"E", "#", "4">>, <<"B", "b", "3">>, <<"A", "1", "0">>,
          <<"x", "A", "4">>, <<"A", "-", "1">>}

PianoInit ==
  Rendered(44000, {[op |-> "input", noteName |-> n] : n \in NoteNameInputs})

CallGetMidiNoteNumber ==
  /\ lastOp.op = "input"
  /\ lastOp' = [op |-> "getMidiNoteNumber", noteName |-> lastOp.noteName,
                result |-> getMidiNoteNumber(lastOp.noteName)]
  /\ UNCHANGED <<baseFrequency, noteConfigurations, tuningMethod,
                 currentTuningSystem, edits, playerVars, serverVars>>

CallGetNoteSemitones ==
  /\ lastOp.op = "input"
  /\ lastOp' = [op |-> "getNoteSemitones", noteName |-> lastOp.noteName,
                result |-> getNoteSemitones(lastOp.noteName)]
  /\ UNCHANGED <<baseFrequency, noteConfigurations, tuningMethod,
                 currentTuningSystem, edits, playerVars, serverVars>>

PianoNext == CallGetMidiNoteNumber \/ CallGetNoteSemitones

PianoSpec == PianoInit /\ [][PianoNext]_vars

NoteNameInit ==
  Rendered(44000, {[op |-> "input", noteName |-> n] : n \in NoteNameInputs})

CallGetBaseNoteName ==
  /\ lastOp.op = "input"
  /\ lastOp' = [op |-> "getBaseNoteName", noteName |-> lastOp.noteName,
                result |-> getBaseNoteName(lastOp.noteName)]
  /\ UNCHANGED <<baseFrequency, noteConfigurations, tuningMethod,
                 currentTuningSystem, edits, playerVars, serverVars>>

CallGetNoteOctave ==
  /\ lastOp.op = "input"
  /\ lastOp' = [op |-> "getNoteOctave", noteName |-> lastOp.noteName,
                result |-> getNoteOctave(lastOp.noteName)]
  /\ UNCHANGED <<baseFrequency, noteConfigurations, tuningMethod,
                 currentTuningSystem, edits, playerVars, serverVars>>

NoteNameNext == CallGetBaseNoteName \/ CallGetNoteOctave

NoteNameSpec == NoteNameInit /\ [][NoteNameNext]_vars

\* the names given to getStandardNoteRange as start and as end
RangeNoteInputs ==
  {<<"A", "2">>, <<"F", "#", "3">>, <<"B", "3">>, <<"C", "4">>,
   <<"C", "#", "4">>, <<"A", "4">>, <<"E", "5">>, <<"G", "#", "5">>,
   <<"C", "6">>, <<"A", "1", "0">>, <<"H", "4">>, <<"C">>}

RangeInit ==
  Rendered(44000, {[op |-> "input", startNote |-> a, endNote |-> b] :
                     a \in RangeNoteInputs, b \in RangeNoteInputs})

CallGetStandardNoteRange ==
  /\ lastOp.op = "input"
  /\ lastOp' = [op |-> "getStandardNoteRange", startNote |-> lastOp.startNote,
                endNote |-> lastOp.endNote,
                result |-> getStandardNoteRange(lastOp.startNote, lastOp.endNote)]
  /\ UNCHANGED <<baseFrequency, noteConfigurations, tuningMethod,
                 currentTuningSystem, edits, playerVars, serverVars>>

RangeNext == CallGetStandardNoteRange

RangeSpec == RangeInit /\ [][RangeNext]_vars

\* the texts put on either side of the "/" of a ratio string
RatioTexts ==
  {<<"3">>, <<"3", " ">>, <<" ", "2">>, <<"2">>, <<"a", "b", "c">>, <<>>,
   <<"0">>, <<"-", "3">>, <<"1", "2">>, <<"7", "x">>}

\* the strings given to parseRatioString: with one "/", with none, with two
RatioStringInputs ==
  {n \o <<"/">> \o d : n \in RatioTexts, d \in RatioTexts}
    \cup RatioTexts
    \cup {<<"3", "/", "2", "/", "5">>, <<"3", ":", "2">>}

RatioInit ==
  Rendered(44000, {[op |-> "input", ratioStr |-> r] : r \in RatioStringInputs})

CallParseRatioString ==
  /\ lastOp.op = "input"
  /\ lastOp' = [op |-> "parseRatioString", ratioStr |-> lastOp.ratioStr,
                result |-> parseRatioString(lastOp.ratioStr)]
  /\ UNCHANGED <<baseFrequency, noteConfigurations, tuningMethod,
                 currentTuningSystem, edits, playerVars, serverVars>>

RatioNext == CallParseRatioString

RatioSpec == RatioInit /\ [][RatioNext]_vars

\* the cents given to centsToRatio, in tenths of a cent: every half cent
\* from -10 to 10, every 10 cents from one octave down to two octaves up,
\* cents of the temperament tables, and ratios of 10 and above
CentsInputs ==
  {5 * c : c \in -20..20} \cup {100 * c : c \in -120..240}
    \cup {1, 3863, 6966, 7020, 40000, 45000, 48000}

CentsInit ==
  Rendered(44000, {[op |-> "input", cents |-> c] : c \in CentsInputs})

CallCentsToRatio ==
  /\ lastOp.op = "input"
  /\ lastOp' = [op |-> "centsToRatio", cents |-> lastOp.cents,
                result |-> centsToRatio(lastOp.cents)]
  /\ UNCHANGED <<baseFrequency, noteConfigurations, tuningMethod,
                 currentTuningSystem, edits, playerVars, serverVars>>

CentsNext == CallCentsToRatio

CentsSpec == CentsInit /\ [][CentsNext]_vars

\* the arguments given to calculateFrequency
FrequencyInputs ==
  [op : {"input"},
   noteName : {<<"C", "4">>, <<"A", "4">>, <<"E", "5">>, <<"A", "3">>,
               <<"G", "#", "2">>, <<"G", "4">>, <<"C", "5">>, <<"C", "3">>},
   baseFrequency : {26163, 43200, 44000},
   ratioNumerator : {1, 3, 5},
   ratioDenominator : {1, 2, 4},
   cents : {0, -500, 3863, 7020}]

FrequencyInit == Rendered(44000, FrequencyInputs)

CallCalculateFrequency ==
  /\ lastOp.op = "input"
  /\ lastOp' = [lastOp EXCEPT !.op = "calculateFrequency"]
                 @@ [result |-> calculateFrequency(lastOp.noteName,
                                  lastOp.baseFrequency, lastOp.ratioNumerator,
                                  lastOp.ratioDenominator, lastOp.cents)]
  /\ UNCHANGED <<baseFrequency, noteConfigurations, tuningMethod,
                 currentTuningSystem, edits, playerVars, serverVars>>

FrequencyNext == CallCalculateFrequency

FrequencySpec == FrequencyInit /\ [][FrequencyNext]_vars

\* the number of base frequencies of TuningBases after the two presets
MaxBases == 8

\* the base frequencies given to initializeTunings: the two presets, and
\* values off the grid of whole hertz
TuningBases == {43200, 44000} \cup {41503 + 797 * k : k \in 1..MaxBases}

\* the tuning systems given to initializeTunings: the six it knows, two of
\* the configuration panel, an unknown one, and none
TuningSystemInputs ==
  {"equal", "just", "pythagorean", "quarter", "werckmeister3", "kirnberger3",
   "youngWellTuned", "centaur", "bohlenPierce", undefined}

TuningsInit ==
  \E base \in TuningBases : Rendered(base, {[op |-> "input"]})

CallInitializeTunings(tuningSystem) ==
  /\ lastOp.op = "input"
  /\ noteConfigurations' = initializeTunings(baseFrequency, tuningSystem)
  /\ lastOp' = [op |-> "initializeTunings", tuningSystem |-> tuningSystem]
  /\ UNCHANGED <<baseFrequency, tuningMethod, currentTuningSystem, edits, playerVars, serverVars>>

TuningsNext ==
  \E tuningSystem \in TuningSystemInputs : CallInitializeTunings(tuningSystem)

TuningsSpec == TuningsInit /\ [][TuningsNext]_vars

(***************************************************************************)
(* Properties                                                              *)
(***************************************************************************)
\* C1: the entry of A4 in the page's note map always holds the base
\* frequency verbatim, calculateFrequency returns the base frequency for A4
\* whatever the tuning fields, and initializeTunings pins A4 for every
\* tuning system
C1_A4IsBaseFrequency ==
  /\ noteConfigurations[<<"A", "4">>].frequency = baseFrequency
  /\ With(noteConfigurations[<<"A", "4">>], LAMBDA a4 :
       calculateFrequency(<<"A", "4">>, baseFrequency, a4.ratioNumerator,
                          a4.ratioDenominator, a4.cents) = baseFrequency)
  /\ lastOp.op = "mount" =>
       \A system \in TuningSystemInputs, base \in BaseFrequencies :
         initializeTunings(base, system)[<<"A", "4">>].frequency = base

\* C1 witness: A4 edited to the ratio 7/4 in just intonation at 432 Hz
C1_Witness ==
  /\ lastOp.op = "updateNoteConfig"
  /\ currentTuningSystem = "Just Intonation"
  /\ baseFrequency = 43200
  /\ noteConfigurations[<<"A", "4">>].ratioNumerator = 7
  /\ noteConfigurations[<<"A", "4">>].frequency = 43200

\* C2: for the 12 pitch classes followed by a digit 0..9, getMidiNoteNumber
\* returns index + (octave + 1) * 12 and getNoteSemitones that number less 69
C2_MidiNumbers ==
  \A k \in 1..12, d \in 0..9 :
    lastOp.op # "input" /\ lastOp.noteName = noteNames[k] \o <<Digits[d + 1]>> =>
      /\ lastOp.op = "getMidiNoteNumber" =>
           lastOp.result = Return((k - 1) + (d + 1) * 12)
      /\ lastOp.op = "getNoteSemitones" =>
           lastOp.result = Return((k - 1) + (d + 1) * 12 - 69)

\* C2 witness: C5 is 3 semitones above A4
C2_Witness ==
  /\ lastOp.op = "getNoteSemitones"
  /\ lastOp.noteName = <<"C", "5">>
  /\ lastOp.result = Return(3)

\* C3: for a note other than A4, a ratio with a term other than 1 is the
\* multiplier and the cents have no influence; with the ratio 1/1 the
\* multiplier is 2^(cents/1200)
C3_RatioBeforeCents ==
  lastOp.op = "calculateFrequency" /\ lastOp.noteName # <<"A", "4">> =>
    With(cInTargetOctave(lastOp.noteName, lastOp.baseFrequency), LAMBDA cInOctave :
      IF lastOp.ratioNumerator # 1 \/ lastOp.ratioDenominator # 1
      THEN /\ lastOp.result = ToFixed2(cInOctave, lastOp.ratioNumerator,
                                       lastOp.ratioDenominator)
           /\ \A cents \in {0, 1, -500, 3863, 7020, 12000} :
                calculateFrequency(lastOp.noteName, lastOp.baseFrequency,
                                   lastOp.ratioNumerator,
                                   lastOp.ratioDenominator, cents)
                  = lastOp.result
      ELSE With(Pow2Cents(lastOp.cents), LAMBDA multiplier :
             lastOp.result = ToFixed2(cInOctave, multiplier[1], multiplier[2])))

\* C3 witness: E5 with the ratio 3/1 and 702 cents sounds three times C5
C3_Witness ==
  /\ lastOp.op = "calculateFrequency"
  /\ lastOp.noteName = <<"E", "5">>
  /\ lastOp.baseFrequency = 44000
  /\ lastOp.ratioNumerator = 3 /\ lastOp.ratioDenominator = 1
  /\ lastOp.cents = 7020
  /\ lastOp.result = 156975

\* the octave digit of a key of the note map
OctaveOfKey(key) == DigitVal(key[Len(key)])

\* C4: in the map built by initializeTunings, a note is twice the frequency
\* of the note of the same pitch class one octave below, within the
\* rounding of the stored values
C4_OctaveEquivalence ==
  lastOp.op = "initializeTunings" =>
    \A lo \in DOMAIN noteConfigurations, hi \in DOMAIN noteConfigurations :
      /\ noteConfigurations[lo].baseName = noteConfigurations[hi].baseName
      /\ OctaveOfKey(hi) = OctaveOfKey(lo) + 1
      => Abs(noteConfigurations[hi].frequency
               - 2 * noteConfigurations[lo].frequency) <= 2

\* C5: the keys of the map built by initializeTunings are the 40 notes of
\* getStandardNoteRange('A2', 'C6'); each entry has its key as name and the
\* pitch class of its key as baseName
C5_KeysAreA2ToC6 ==
  lastOp.op = "initializeTunings" =>
    With(getStandardNoteRange(<<"A", "2">>, <<"C", "6">>), LAMBDA range :
      /\ ~range.threw
      /\ Len(range.value) = 40
      /\ DOMAIN noteConfigurations
           = {range.value[i].note : i \in 1..Len(range.value)}
      /\ Cardinality(DOMAIN noteConfigurations) = 40
      /\ \A key \in DOMAIN noteConfigurations :
           /\ noteConfigurations[key].name = key
           /\ \E k \in 1..12 : noteConfigurations[key].baseName = noteNames[k]
           /\ key = noteConfigurations[key].baseName \o <<key[Len(key)]>>)

\* C5 witness: the Pythagorean map holds G#5 and not G#2
C5_Witness ==
  /\ lastOp.op = "initializeTunings"
  /\ lastOp.tuningSystem = "pythagorean"
  /\ <<"G", "#", "2">> \notin DOMAIN noteConfigurations
  /\ <<"A", "2">> \in DOMAIN noteConfigurations
  /\ <<"C", "6">> \in DOMAIN noteConfigurations
  /\ noteConfigurations[<<"G", "#", "5">>].baseName = <<"G", "#">>

\* C6: every C of the map built by initializeTunings has the ratio 1/1, the
\* ratio string '1/1' and 0 cents, for every tuning system name
C6_CIsUnison ==
  lastOp.op = "initializeTunings" =>
    \A octave \in {"3", "4", "5", "6"} :
      With(noteConfigurations[<<"C", octave>>], LAMBDA c :
        /\ c.ratioNumerator = 1 /\ c.ratioDenominator = 1
        /\ c.ratio = <<"1", "/", "1">>
        /\ c.cents = 0)

\* C6 witness: C3 under a name initializeTunings does not know
C6_Witness ==
  /\ lastOp.op = "initializeTunings"
  /\ lastOp.tuningSystem = "bohlenPierce"
  /\ noteConfigurations[<<"C", "3">>].ratio = <<"1", "/", "1">>
  /\ noteConfigurations[<<"C", "3">>].cents = 0

\* the ratios of the naturals in just intonation and in Pythagorean tuning
NaturalRatios ==
  { <<"just", <<"C">>, 1, 1, <<"1", "/", "1">> >>,
    <<"just", <<"D">>, 9, 8, <<"9", "/", "8">> >>,
    <<"just", <<"E">>, 5, 4, <<"5", "/", "4">> >>,
    <<"just", <<"F">>, 4, 3, <<"4", "/", "3">> >>,
    <<"just", <<"G">>, 3, 2, <<"3", "/", "2">> >>,
    <<"just", <<"A">>, 5, 3, <<"5", "/", "3">> >>,
    <<"just", <<"B">>, 15, 8, <<"1", "5", "/", "8">> >>,
    <<"pythagorean", <<"C">>, 1, 1, <<"1", "/", "1">> >>,
    <<"pythagorean", <<"D">>, 9, 8, <<"9", "/", "8">> >>,
    <<"pythagorean", <<"E">>, 81, 64, <<"8", "1", "/", "6", "4">> >>,
    <<"pythagorean", <<"F">>, 4, 3, <<"4", "/", "3">> >>,
    <<"pythagorean", <<"G">>, 3, 2, <<"3", "/", "2">> >>,
    <<"pythagorean", <<"A">>, 27, 16, <<"2", "7", "/", "1", "6">> >>,
    <<"pythagorean", <<"B">>, 243, 128, <<"2", "4", "3", "/", "1", "2", "8">> >> }

\* C7: 'just' and 'pythagorean' give the naturals their tabulated ratios, as
\* numerator and denominator and as ratio string, in every octave
C7_JustAndPythagoreanRatios ==
  lastOp.op = "initializeTunings" =>
    \A key \in DOMAIN noteConfigurations, row \in NaturalRatios :
      lastOp.tuningSystem = row[1] /\ noteConfigurations[key].baseName = row[2]
      => /\ noteConfigurations[key].ratioNumerator = row[3]
         /\ noteConfigurations[key].ratioDenominator = row[4]
         /\ noteConfigurations[key].ratio = row[5]

\* C7 witness: the just sixth of A3 and A4
C7_Witness ==
  /\ lastOp.op = "initializeTunings"
  /\ lastOp.tuningSystem = "just"
  /\ noteConfigurations[<<"A", "3">>].ratio = <<"5", "/", "3">>
  /\ noteConfigurations[<<"A", "4">>].ratioNumerator = 5

\* C8: 'equal', and no system given, store 0, 100, ... 1100 cents for C to B
\* with the ratio 1/1, in every octave; A4 has 900 cents
C8_EqualTemperament ==
  lastOp.op = "initializeTunings" /\ lastOp.tuningSystem \in {"equal", undefined} =>
    /\ \A key \in DOMAIN noteConfigurations :
         /\ noteConfigurations[key].cents
              = 1000 * IndexOf(noteNames, noteConfigurations[key].baseName)
         /\ noteConfigurations[key].ratioNumerator = 1
         /\ noteConfigurations[key].ratioDenominator = 1
         /\ noteConfigurations[key].ratio = <<"1", "/", "1">>
    /\ noteConfigurations[<<"A", "4">>].cents = 9000

\* C8 witness: no system given, B3 at 1100 cents and A4 at 900
C8_Witness ==
  /\ lastOp.op = "initializeTunings"
  /\ lastOp.tuningSystem = undefined
  /\ noteConfigurations[<<"B", "3">>].cents = 11000
  /\ noteConfigurations[<<"A", "4">>].cents = 9000

\* C9: 'centaur' gives C# 21/20 and A# 7/4, 'youngWellTuned' gives F#
\* 189/128 and A# 441/256, and both leave C at 1/1
C9_CentaurAndYoungRatios ==
  lastOp.op = "initializeTunings" =>
    \A key \in DOMAIN noteConfigurations :
      \A row \in { <<"centaur", <<"C">>, 1, 1>>,
                   <<"centaur", <<"C", "#">>, 21, 20>>,
                   <<"centaur", <<"A", "#">>, 7, 4>>,
                   <<"youngWellTuned", <<"C">>, 1, 1>>,
                   <<"youngWellTuned", <<"F", "#">>, 189, 128>>,
                   <<"youngWellTuned", <<"A", "#">>, 441, 256>> } :
        lastOp.tuningSystem = row[1] /\ noteConfigurations[key].baseName = row[2]
        => /\ noteConfigurations[key].ratioNumerator = row[3]
           /\ noteConfigurations[key].ratioDenominator = row[4]
           /\ noteConfigurations[key].ratio = RatioString(row[3], row[4])

\* the tables of cents of the three historical temperaments
CentsTables ==
  [quarter |-> meantoneCents, werckmeister3 |-> werckmeisterCents,
   kirnberger3 |-> kirnbergerCents]

\* C10 as stated: the three historical temperaments keep their tabulated
\* cents with the trivial ratio 1/1
C10_CentsWithUnisonRatio ==
  lastOp.op = "initializeTunings" /\ lastOp.tuningSystem \in DOMAIN CentsTables =>
    \A key \in DOMAIN noteConfigurations :
      /\ noteConfigurations[key].cents
           = CentsTables[lastOp.tuningSystem][noteConfigurations[key].baseName]
      /\ noteConfigurations[key].ratioNumerator = 1
      /\ noteConfigurations[key].ratioDenominator = 1
      /\ noteConfigurations[key].ratio = <<"1", "/", "1">>

\* C10 amended: the three historical temperaments keep their tabulated
\* cents; the ratio stored is 1/1 for C only, for the other pitch classes a
\* ratio within 0.1 cent of the tabulated value, its string is that ratio,
\* and the frequency is that of the ratio
C10_CentsWithApproximateRatio ==
  lastOp.op = "initializeTunings" /\ lastOp.tuningSystem \in DOMAIN CentsTables =>
    \A key \in DOMAIN noteConfigurations :
      With(noteConfigurations[key], LAMBDA note :
        /\ note.cents = CentsTables[lastOp.tuningSystem][note.baseName]
        /\ (note.ratioNumerator = 1 /\ note.ratioDenominator = 1)
             <=> note.baseName = <<"C">>
        /\ note.ratioNumerator > 0 /\ note.ratioDenominator > 0
        /\ Abs(ToFixed1(ratioToCents(note.ratioNumerator,
                                     note.ratioDenominator)) - note.cents) <= 1
        /\ note.ratio = RatioString(note.ratioNumerator, note.ratioDenominator)
        /\ key # <<"A", "4">> /\ note.baseName # <<"C">> =>
             note.frequency
               = ToFixed2(cInTargetOctave(key, baseFrequency),
                          note.ratioNumerator, note.ratioDenominator))

\* C10 witness: the pure third of quarter-comma meantone, stored with a
\* ratio that is not 1/1
C10_Witness ==
  /\ lastOp.op = "initializeTunings"
  /\ lastOp.tuningSystem = "quarter"
  /\ noteConfigurations[<<"E", "4">>].cents = 3863
  /\ noteConfigurations[<<"G", "4">>].cents = 6966
  /\ noteConfigurations[<<"E", "4">>].ratioNumerator # 1

\* C11: every note of the page's map has a frequency greater than 0
C11_PositiveFrequencies ==
  \A key \in DOMAIN noteConfigurations :
    /\ noteConfigurations[key].frequency > 0
    /\ IsFinite(noteConfigurations[key].frequency)

\* C12: once updateNoteConfig has taken effect, the notes of one pitch class
\* hold the same ratio and cents in every octave, and each a frequency
\* computed from them
C12_EditReachesEveryOctave ==
  lastOp.op = "updateNoteConfig" =>
    \A key \in DOMAIN noteConfigurations, other \in DOMAIN noteConfigurations :
      noteConfigurations[key].baseName = noteConfigurations[other].baseName =>
        /\ noteConfigurations[key].ratioNumerator
             = noteConfigurations[other].ratioNumerator
        /\ noteConfigurations[key].ratioDenominator
             = noteConfigurations[other].ratioDenominator
        /\ noteConfigurations[key].cents = noteConfigurations[other].cents
        /\ noteConfigurations[key].frequency
             = calculateFrequency(key, baseFrequency,
                                  noteConfigurations[other].ratioNumerator,
                                  noteConfigurations[other].ratioDenominator,
                                  noteConfigurations[other].cents)

\* C13: a load replaces the note map as a whole: the keys of the map are the
\* keys of the loaded notes and every entry holds the loaded ratio and cents
C13_LoadReplacesTheMap ==
  lastOp.op = "loadTuningConfig" =>
    /\ DOMAIN noteConfigurations = DOMAIN lastOp.config.notes
    /\ \A key \in DOMAIN noteConfigurations :
         /\ noteConfigurations[key].ratioNumerator
              = lastOp.config.notes[key].ratioNumerator
         /\ noteConfigurations[key].ratioDenominator
              = lastOp.config.notes[key].ratioDenominator
         /\ noteConfigurations[key].cents = lastOp.config.notes[key].cents
         /\ noteConfigurations[key].ratio = lastOp.config.notes[key].ratio

\* C13 witness: three notes loaded over a map of 40 with an edited note
C13_Witness ==
  /\ lastOp.op = "loadTuningConfig"
  /\ edits = 1
  /\ baseFrequency = 43200
  /\ Cardinality(DOMAIN noteConfigurations) = 3
  /\ <<"A", "4">> \notin DOMAIN noteConfigurations
  /\ noteConfigurations[<<"C", "#", "4">>].ratioNumerator = 16
  /\ noteConfigurations[<<"C", "4">>].cents = 0

\* a letter A to G, with or without a sharp, right before a digit somewhere
\* in s
HasNoteAndDigit(s) ==
  \E i \in 1..Len(s) :
    /\ s[i] \in {"A", "B", "C", "D", "E", "F", "G"}
    /\ \E j \in {i + 1, i + 2} :
         /\ j <= Len(s)
         /\ s[j] \in {"0", "1", "2", "3", "4", "5", "6", "7", "8", "9"}
         /\ j = i + 2 => s[i + 1] = "#"

\* C14: getMidiNoteNumber and getNoteSemitones throw, and return no number,
\* for every string without a letter A to G (and an optional sharp) right
\* before a digit
C14_InvalidNamesThrow ==
  lastOp.op \in {"getMidiNoteNumber", "getNoteSemitones"} =>
    /\ ~HasNoteAndDigit(lastOp.noteName) => lastOp.result = [threw |-> TRUE]
    /\ HasNoteAndDigit(lastOp.noteName) => ~lastOp.result.threw

\* C14 witness: getNoteSemitones throws for H4
C14_Witness ==
  /\ lastOp.op = "getNoteSemitones"
  /\ lastOp.noteName = <<"H", "4">>
  /\ lastOp.result.threw

\* C15: for a string that does not match the note pattern getBaseNoteName
\* returns the empty string and getNoteOctave 4; for a pitch class followed
\* by a digit they return the pitch class and the digit
C15_DisplayHelpersDefault ==
  /\ lastOp.op = "getBaseNoteName" /\ ~HasNoteAndDigit(lastOp.noteName) =>
       lastOp.result = <<>>
  /\ lastOp.op = "getNoteOctave" /\ ~HasNoteAndDigit(lastOp.noteName) =>
       lastOp.result = 4
  /\ \A k \in 1..12, d \in 0..9 :
       lastOp.op # "input" /\ lastOp.noteName = noteNames[k] \o <<Digits[d + 1]>> =>
         /\ lastOp.op = "getBaseNoteName" => lastOp.result = noteNames[k]
         /\ lastOp.op = "getNoteOctave" => lastOp.result = d

\* C15 witness: getNoteOctave of the empty string is 4
C15_Witness ==
  /\ lastOp.op = "getNoteOctave"
  /\ lastOp.noteName = <<>>
  /\ lastOp.result = 4

\* C16: a pitch class followed by a digit is the concatenation of its
\* getBaseNoteName and its getNoteOctave, and so is every key of the map of
\* initializeTunings
C16_NoteNameRoundTrip ==
  /\ \A k \in 1..12, d \in 0..9 :
       lastOp.op # "input" /\ lastOp.noteName = noteNames[k] \o <<Digits[d + 1]>> =>
         /\ lastOp.op = "getBaseNoteName" =>
              lastOp.result \o NumToStr(getNoteOctave(lastOp.noteName))
                = lastOp.noteName
         /\ lastOp.op = "getNoteOctave" =>
              getBaseNoteName(lastOp.noteName) \o NumToStr(lastOp.result)
                = lastOp.noteName
  /\ lastOp.op = "getBaseNoteName" /\ lastOp.noteName = <<>> =>
       \A key \in DOMAIN initializeTunings(baseFrequency, undefined) :
         getBaseNoteName(key) \o NumToStr(getNoteOctave(key)) = key

\* C16 witness: the pitch class of G#7, which its octave completes
C16_Witness ==
  /\ lastOp.op = "getBaseNoteName"
  /\ lastOp.noteName = <<"G", "#", "7">>
  /\ lastOp.result = <<"G", "#">>

\* what the texts on either side of the "/" parse to as integers:
\* <<text, whether it parses, the integer>>
ParsedTexts ==
  { << <<"3">>, TRUE, 3 >>, << <<"3", " ">>, TRUE, 3 >>,
    << <<" ", "2">>, TRUE, 2 >>, << <<"2">>, TRUE, 2 >>,
    << <<"a", "b", "c">>, FALSE, 0 >>, << <<>>, FALSE, 0 >>,
    << <<"0">>, TRUE, 0 >>, << <<"-", "3">>, TRUE, -3 >>,
    << <<"1", "2">>, TRUE, 12 >>, << <<"7", "x">>, TRUE, 7 >> }

\* C17: parseRatioString returns [1, 1] for a string that is empty or has
\* no "/", for a side of the "/" that is no integer and for the denominator
\* 0, and otherwise the integers of the trimmed texts on the two sides
C17_ParseRatioString ==
  lastOp.op = "parseRatioString" =>
    /\ Len(lastOp.result) = 2
    /\ (\A i \in 1..Len(lastOp.ratioStr) : lastOp.ratioStr[i] # "/") =>
         lastOp.result = <<1, 1>>
    /\ \A n \in ParsedTexts, d \in ParsedTexts :
         lastOp.ratioStr = n[1] \o <<"/">> \o d[1] =>
           lastOp.result = IF ~n[2] \/ ~d[2] \/ d[3] = 0 THEN <<1, 1>>
                           ELSE <<n[3], d[3]>>

\* C17 witness: '3 / 2' gives [3, 2]
C17_Witness ==
  /\ lastOp.op = "parseRatioString"
  /\ lastOp.ratioStr = <<"3", " ", "/", " ", "2">>
  /\ lastOp.result = <<3, 2>>

\* the keys of a range that getStandardNoteRange returned are the
\* chromatic run from first to last: as many as the MIDI numbers from first
\* to last, the i-th with the i-th MIDI number, black exactly when sharp
IsChromaticRun(keys, first, last) ==
  /\ Len(keys) = last - first + 1
  /\ \A i \in 1..Len(keys) :
       /\ getMidiNoteNumber(keys[i].note) = Return(first + i - 1)
       /\ keys[i].isBlack = (\E j \in 1..Len(keys[i].note) : keys[i].note[j] = "#")

\* C18: for valid start and end notes with start not above end,
\* getStandardNoteRange returns the notes from start to end inclusive in
\* ascending chromatic order with no gap and no duplicate, isBlack true
\* exactly for the sharps; it throws when either argument is no note name
C18_StandardNoteRange ==
  lastOp.op = "getStandardNoteRange" =>
    IF ~HasNoteAndDigit(lastOp.startNote) \/ ~HasNoteAndDigit(lastOp.endNote)
    THEN lastOp.result = Throw
    ELSE getMidiNoteNumber(lastOp.startNote).value
           <= getMidiNoteNumber(lastOp.endNote).value =>
         /\ ~lastOp.result.threw
         /\ IsChromaticRun(lastOp.result.value,
                           getMidiNoteNumber(lastOp.startNote).value,
                           getMidiNoteNumber(lastOp.endNote).value)

\* C18 witness: the range from F#3 to E5 has 23 keys, F#3 first and black,
\* E5 last and white
C18_Witness ==
  /\ lastOp.op = "getStandardNoteRange"
  /\ lastOp.startNote = <<"F", "#", "3">>
  /\ lastOp.endNote = <<"E", "5">>
  /\ ~lastOp.result.threw
  /\ Len(lastOp.result.value) = 23
  /\ lastOp.result.value[1] = [note |-> <<"F", "#", "3">>, isBlack |-> TRUE]
  /\ lastOp.result.value[23] = [note |-> <<"E", "5">>, isBlack |-> FALSE]

\* C19: calculateFrequency takes its frequency argument f as the frequency
\* of C4: C4 with 1/1 and 0 cents returns f itself, a note of octave 4
\* returns f * n / d for a ratio n/d and f * 2^(cents/1200) for the ratio
\* 1/1, C5 returns 2f and C3 f/2, all to the hundredth of a hertz
C19_FrequencyArgumentIsC4 ==
  lastOp.op = "calculateFrequency" =>
    /\ getNoteOctave(lastOp.noteName) = 4 =>
         IF lastOp.ratioNumerator # 1 \/ lastOp.ratioDenominator # 1
         THEN Abs(lastOp.result - MulDivRound(lastOp.baseFrequency,
                                     lastOp.ratioNumerator,
                                     lastOp.ratioDenominator)) <= 1
         ELSE With(Pow2Cents(lastOp.cents), LAMBDA multiplier :
                Abs(lastOp.result - MulDivRound(lastOp.baseFrequency,
                                      multiplier[1], multiplier[2])) <= 1)
    /\ lastOp.ratioNumerator = 1 /\ lastOp.ratioDenominator = 1
         /\ lastOp.cents = 0 =>
         /\ lastOp.noteName = <<"C", "4">> => lastOp.result = lastOp.baseFrequency
         /\ lastOp.noteName = <<"C", "5">> =>
              Abs(lastOp.result - 2 * lastOp.baseFrequency) <= 1
         /\ lastOp.noteName = <<"C", "3">> =>
              Abs(2 * lastOp.result - lastOp.baseFrequency) <= 2

\* the product of the tonic frequency, the multiplier and the octave scale
\* before toFixed(2), in units of 0.00001 Hz, rounded down
UnroundedFrequency(op) ==
  With(cInTargetOctave(op.noteName, op.baseFrequency), LAMBDA cInOctave :
    IF op.ratioNumerator # 1 \/ op.ratioDenominator # 1
    THEN MulDiv(cInOctave, op.ratioNumerator, op.ratioDenominator)
    ELSE With(Pow2Cents(op.cents), LAMBDA multiplier :
           MulDiv(cInOctave, multiplier[1], multiplier[2])))

\* C20 as stated: calculateFrequency returns the product of the tonic
\* frequency, the multiplier and the octave scale itself, with no rounding
\* to 2 decimals
C20_NoRounding ==
  lastOp.op = "calculateFrequency" /\ lastOp.noteName # <<"A", "4">> =>
    lastOp.result * FINE = UnroundedFrequency(lastOp)

\* C20 amended: for a note other than A4 calculateFrequency returns the
\* product rounded to the nearest hundredth of a hertz, at most half a
\* hundredth away from the product; for A4 it returns its argument as given
C20_RoundedToHundredths ==
  lastOp.op = "calculateFrequency" =>
    IF lastOp.noteName = <<"A", "4">>
    THEN lastOp.result = lastOp.baseFrequency
    ELSE lastOp.result * FINE - UnroundedFrequency(lastOp)
           \in (1 - FINE \div 2)..(FINE \div 2)

\* C20 witness: C4 under A4 = 440 Hz with 1/1 and 0 cents is 261.62556...,
\* returned as 261.63
C20_Witness ==
  /\ lastOp.op = "calculateFrequency"
  /\ lastOp.noteName = <<"C", "4">>
  /\ lastOp.baseFrequency = 44000
  /\ lastOp.ratioNumerator = 1 /\ lastOp.ratioDenominator = 1
  /\ lastOp.cents = 0
  /\ UnroundedFrequency(lastOp) \in 26162500..26162600
  /\ lastOp.result = 26163

RECURSIVE ConvergentAt(_, _, _, _, _, _, _)
ConvergentAt(k, p, q, n1, d1, n2, d2) ==
  IF k = 0 THEN <<n1, d1>>
  ELSE IF q = 0 THEN <<>>
  ELSE ConvergentAt(k - 1, q, p % q, (p \div q) * n1 + n2,
                    (p \div q) * d1 + d2, n1, d1)

\* C22: centsToRatio returns a pair for every cents value; when
\* 2^(cents/1200) is below 10 and not within 1e-6 of 1 the pair is one of the
\* first 10 convergents built by the recurrence from (1, 0), (0, 1), and
\* its denominator is at least 1
C22_ContinuedFractionTerminates ==
  lastOp.op = "centsToRatio" =>
    /\ Len(lastOp.result) = 2
    /\ With(Pow2Cents(lastOp.cents), LAMBDA ratio :
         /\ ratio[1] \div 10 < ratio[2]
         /\ Abs(ratio[1] - ratio[2]) > (ratio[2] - 1) \div 1000000
         => /\ lastOp.result[2] >= 1
            /\ \E k \in 1..maxIterations :
                 lastOp.result = ConvergentAt(k, ratio[1], ratio[2], 1, 0, 0, 1))

\* C22 witness: 702 cents returns the fourth convergent of 1.50004,
\* 19235/12823
C22_Witness ==
  /\ lastOp.op = "centsToRatio"
  /\ lastOp.cents = 7020
  /\ lastOp.result = <<19235, 12823>>
  /\ With(Pow2Cents(7020), LAMBDA ratio :
       lastOp.result = ConvergentAt(4, ratio[1], ratio[2], 1, 0, 0, 1))

\* C23: every tone started by playNote is stopped after the decay
\* duration: once more than decayLength seconds have passed since an
\* oscillator started, it has been stopped and no note of activeOscillators
\* holds it
C23_TonesStopAfterDecay ==
  \A i \in 1..Len(oscillators) :
    now > oscillators[i].started + decayLength =>
      /\ oscillators[i].stopped
      /\ \A noteName \in DOMAIN activeOscillators : activeOscillators[noteName] # i

\* C24: every pair returned by parseRatioString has a positive integer
\* numerator and a positive integer denominator
C24_ParsedRatioIsPositive ==
  lastOp.op = "parseRatioString" =>
    /\ lastOp.result[1] \in Nat \ {0}
    /\ lastOp.result[2] \in Nat \ {0}

\* C25: in every note map the page holds, the ratio string of each note is
\* its ratioNumerator, a "/" and its ratioDenominator
C25_RatioStringMatchesTerms ==
  \A noteName \in DOMAIN noteConfigurations :
    noteConfigurations[noteName].ratio =
      NumToStr(noteConfigurations[noteName].ratioNumerator) \o <<"/">>
        \o NumToStr(noteConfigurations[noteName].ratioDenominator)

\* C26: a change of the base frequency leaves the keys of the note map and
\* every note's name, baseName, ratioNumerator, ratioDenominator, ratio and
\* cents as they were, and sets each frequency to calculateFrequency of the
\* note with the new base frequency and the note's tuning parameters
C26_BaseChangeRecomputesFrequenciesOnly ==
  [][baseFrequency' # baseFrequency =>
       /\ DOMAIN noteConfigurations' = DOMAIN noteConfigurations
       /\ \A noteName \in DOMAIN noteConfigurations :
            /\ \A field \in {"name", "baseName", "ratioNumerator",
                             "ratioDenominator", "ratio", "cents"} :
                 noteConfigurations'[noteName][field]
                   = noteConfigurations[noteName][field]
            /\ noteConfigurations'[noteName].frequency =
                 calculateFrequency(noteName, baseFrequency',
                                    noteConfigurations[noteName].ratioNumerator,
                                    noteConfigurations[noteName].ratioDenominator,
                                    noteConfigurations[noteName].cents)]_vars

\* C26 witness: with C4 edited to 702 cents, the base frequency changed to
\* 432 Hz: C4 keeps its cents and sounds 702 cents above the C4 of 432 Hz
C26_Witness ==
  /\ lastOp.op = "setBaseFrequency"
  /\ baseFrequency = 43200
  /\ noteConfigurations[<<"C", "4">>].cents = 7020
  /\ noteConfigurations[<<"C", "4">>].frequency
       = calculateFrequency(<<"C", "4">>, 43200, 1, 1, 7020)
  /\ noteConfigurations[<<"C", "4">>].frequency
       # calculateFrequency(<<"C", "4">>, 44000, 1, 1, 7020)

\* a configuration was created by the step: POST answered 201
Creates == lastOp'.op = "POST" /\ response'.status = 201

\* C27: MemStorage never reuses a configuration id: the id handed out by
\* createTuningConfig is the counter, which starts at 1, rises by one with
\* every configuration created and changes with nothing else, so the ids
\* are 1, 2, 3, ... in call order, each above every id stored, also after
\* configurations were deleted
C27_IdsAreNeverReused ==
  [][IF Creates
     THEN /\ response'.body.id = tuningIdCounter
          /\ tuningIdCounter' = tuningIdCounter + 1
          /\ \A id \in DOMAIN tuningConfigs : id < response'.body.id
          /\ \A id \in DOMAIN tuningConfigs' : id < tuningIdCounter'
     ELSE tuningIdCounter' = tuningIdCounter]_vars

\* C27 witness: the first configuration deleted, the second one created
\* gets the id 2
C27_Witness ==
  /\ lastOp.op = "POST"
  /\ response.status = 201
  /\ response.body.id = 2
  /\ DOMAIN tuningConfigs = {2}
  /\ tuningIdCounter = 3

\* C28: every configuration stored has the id of the key it is stored
\* under; a PUT answered 200 writes the fields of the schema its body holds
\* over the record stored and leaves the id, the fields the body omits and
\* the other records as they were
C28_StoredIdIsTheKey ==
  [][/\ \A id \in DOMAIN tuningConfigs' : tuningConfigs'[id].id = id
     /\ lastOp'.op = "PUT" /\ response'.status = 200 =>
          With(parseInt(lastOp'.id), LAMBDA id :
            /\ id \in DOMAIN tuningConfigs
            /\ DOMAIN tuningConfigs' = DOMAIN tuningConfigs
            /\ \A other \in DOMAIN tuningConfigs \ {id} :
                 tuningConfigs'[other] = tuningConfigs[other]
            /\ DOMAIN tuningConfigs'[id] = DOMAIN tuningConfigs[id]
            /\ \A field \in DOMAIN tuningConfigs[id] :
                 tuningConfigs'[id][field] =
                   IF field \in InsertFields \cap DOMAIN lastOp'.body
                   THEN lastOp'.body[field]
                   ELSE tuningConfigs[id][field]
            /\ response'.body = tuningConfigs'[id])]_vars

\* C28 witness: a PUT on the configuration 1 with the id 7 in its body is
\* answered with the record updated, its id still 1
C28_Witness ==
  /\ lastOp.op = "PUT"
  /\ lastOp.id = <<"1">>
  /\ "id" \in DOMAIN lastOp.body
  /\ lastOp.body.id = 7
  /\ response.status = 200
  /\ response.body.id = 1
  /\ response.body.name = "Meantone"
  /\ tuningConfigs[1] = response.body

OccursAt(s, i, part) ==
  /\ i + Len(part) - 1 <= Len(s)
  /\ \A j \in 1..Len(part) : s[i + j - 1] = part[j]

\* C30: getMidiNoteNumber returns a number only for names whose pitch-class
\* part is one of the 12 pitch classes: the number it returns is
\* index + (octave + 1) * 12 for a pitch class of index 0..11 and an octave
\* digit that stand in the name, and for E#4 it throws
C30_NumbersOnlyForPitchClasses ==
  lastOp.op = "getMidiNoteNumber" =>
    /\ lastOp.noteName = <<"E", "#", "4">> => lastOp.result = Throw
    /\ ~lastOp.result.threw =>
         \E k \in 1..12, d \in 0..9 :
           /\ lastOp.result.value = (k - 1) + (d + 1) * 12
           /\ \E i \in 1..Len(lastOp.noteName) :
                OccursAt(lastOp.noteName, i, noteNames[k] \o <<Digits[d + 1]>>)

====
